---- MODULE Spec2Model ----
(***************************************************************************)
(* Verification model of hajimi-king-go: the concurrent scanning and       *)
(* validation engine.  Its components are modelled, each with its own      *)
(* specification over the shared variable list:                            *)
(*   SpecTokens : the credential pool (TokenManager)                       *)
(*   SpecPool   : the task scheduler (WorkerPool) driven as in Run()       *)
(*   SpecScan   : the scan loop and its checkpoint (HajimiKing.mainLoop)   *)
(*   SpecShutdown : the scan loop with the signal path (handleShutdown)    *)
(*   SpecCache  : the tiered content cache (MultiLevelCache)               *)
(*   SpecDetect : candidate detection and key extraction on one file       *)
(*   SpecValidate : the classification of a provider's answer              *)
(*   SpecCheckpointFile : the checkpoint file across a restart             *)
(*   SpecNormalize : NormalizeQuery on query texts, character by character *)
(*   SpecDelete : the content cache with a Redis that can refuse a Del     *)
(*   SpecSearch : search calls through the GitHub clients                  *)
(*   SpecItems  : the items of one query result (handleQueryResult)        *)
(*   SpecCrash  : the scan loop with checkpoint writes that can fail       *)
(*   SpecQuery  : the scan loop searching through the paging client        *)
(*   SpecCycle  : the scan loop over two queries, every search succeeding  *)
(*   SpecLocks  : the two locks of the credential pool, per method         *)
(*   SpecMetrics : the scheduler's counters as GetMetrics reads them       *)
(* Time is a discrete clock `now`; durations are scaled to a few ticks.    *)
(***************************************************************************)
EXTENDS Integers, Sequences, FiniteSets, TLC

VARIABLES
    now,            \* the wall clock read by time.Now()
    \* ---- credential pool (TokenManager)
    tokens,         \* tm.tokens: the shuffled token list
    current,        \* tm.current: rotation cursor (0-based)
    blacklist,      \* tm.blacklist: token -> time it was blacklisted, or NotListed
    mu,             \* holder of tm.mu (a client), or NoOne
    tmPc,           \* per client: position inside GetNextToken
    tmAttempts,     \* per client: local `attempts` of GetNextToken
    tmRet,          \* per client: the value GetNextToken is about to return
    held,           \* per client: the token its last GetNextToken returned
    recent,         \* the tokens taken by the latest GetNextToken calls, oldest
                    \* first, at most len(tokens) of them, counted while no token
                    \* is blacklisted
    \* ---- task scheduler (WorkerPool)
    taskQueue,      \* wp.taskQueue: buffered channel contents (FIFO)
    tqClosed,       \* close(wp.taskQueue) has run
    resultQueue,    \* wp.resultQueue: buffered channel contents (FIFO)
    rqClosed,       \* close(wp.resultQueue) has run
    ctxDone,        \* wp.cancel() has run: wp.ctx.Done() is ready
    started,        \* wp.started (0/1)
    stopped,        \* wp.stopped (0/1)
    wstate,         \* per worker goroutine: position inside Worker.run
    wtask,          \* per worker: the task it received (0: none)
    wfailed,        \* per worker: result.GetError() != nil for its current result
    runPc,          \* position of Run(): Start, wait for the signal, deferred Stop
    subPc,          \* per submitter: position inside SubmitTask
    subTask,        \* per submitter: the task being submitted
    subResult,      \* per submitter: what its last SubmitTask returned
    nextTask,       \* number of tasks created so far
    tasksSubmitted, \* wp.tasksSubmitted
    tasksCompleted, \* wp.tasksCompleted
    tasksFailed,    \* wp.tasksFailed
    panicked,       \* the process died of a send on a closed channel
    \* ---- scan loop and checkpoint (HajimiKing)
    LastScanTime,   \* checkpoint.LastScanTime (0: the empty string)
    ScannedSHAs,    \* checkpoint.ScannedSHAs
    ProcessedQueries, \* checkpoint.ProcessedQueries
    skipStats,      \* hk.skipStats
    searchQueries,  \* mainLoop: what GetSearchQueries() returned
    disk,           \* the checkpoint file as last written
    scPc,           \* position of mainLoop
    qi,             \* mainLoop: index of the current query (1-based)
    resultLen,      \* mainLoop: len(result.Items) of the current query
    itemIndex,      \* mainLoop: itemIndex of the inner loop
    item,           \* mainLoop: the loop variable item (NoItem before the first)
    reason,         \* mainLoop: what shouldSkipItem returned for item
    loopSkipped,    \* items skipped (the `continue`) since the cycle began
    scSnap,         \* mainLoop inside SaveCheckpoint: the marshalled bytes
    sdPc,           \* position of the signal path: Run -> handleShutdown
    sdSnap,         \* handleShutdown inside SaveCheckpoint: the marshalled bytes
    \* ---- content cache (MultiLevelCache)
    l1Cache,        \* the in-memory LRU: entries, least recently used first
    l2Cache,        \* the cache files, by key
    l3Cache,        \* the Redis keys, by key
    enableL3,       \* config.EnableL3 (l3Cache != nil)
    lastGet,        \* what the Get that just returned gave, and from where
    lastSet,        \* per key: what its last Set stored and until when, while
                    \* that Set succeeded, is not overridden and its ttl runs
    \* ---- candidate detector and key extraction
    deleted,        \* the keys Delete was called on with no Set of the key since,
                    \* while Redis still holds the key (no other tier can: every
                    \* path of Delete removes the key from L1 and leaves no file)
    program,        \* which binary runs: the legacy scanner or the optimized one
    platformName,   \* optimized binary: the platform of the query that returned the file
    content,        \* the file content being processed
    dtPc,           \* position inside processItem / processContentWithSmartDetection
    keyContexts,    \* what DetectKeys returned and is still to be processed
    validationTasks, \* the ValidationTasks the worker pool accepted
    keys,           \* processItem: the keys still to be validated
    validKeys,      \* processItem: validKeys
    rateLimitedKeys, \* processItem: rateLimitedKeys
    validationCalls, \* the validateGeminiKey calls made, with what they returned
    validFile,      \* the valid-key file as written (empty: none)
    rateLimitedFile, \* the rate-limited file as written (empty: none)
    \* ---- key validation (Platform.ValidateKey)
    vkPlatform,     \* the platform whose ValidateKey runs
    vkKey,          \* the key it is given
    vkResponse,     \* what the provider answers when asked
    vkResult,       \* the ValidationResult returned (NoResult before)
    \* ---- checkpoint file (SaveCheckpoint, LoadCheckpoint, Run)
    ckMem,          \* the checkpoint in memory of the process that saves
    ckFile,         \* the checkpoint file
    ckPc,           \* running, stopped, then the next start: continues or aborted
    ckSaved,        \* SaveCheckpoint has written ckMem to the file
    ckLoaded,       \* hk.checkpoint of the next start
    \* ---- query normalization by character
    nqQuery,        \* the query text
    nqPc,           \* how often NormalizeQuery has been applied
    nqOnce,         \* NormalizeQuery(query)
    nqTwice,        \* NormalizeQuery(NormalizeQuery(query))
    \* ---- search gateway (github.Client)
    ghKind,         \* how the client was built: single, pool or paging
    cToken,         \* Client.token
    ghPc,           \* where the search call stands
    retryCount,     \* searchCodeWithRetry: retryCount
    srToken,        \* the token of the request built last
    srRequests,     \* requests sent by the SearchCode call so far
    srStatus,       \* the status of the response to it (0: none)
    ghResult,       \* what the call returned (NoSearchResult before)
    tokenPtr,       \* paging Client.tokenPtr (its remainder by len(tokens))
    page,           \* SearchForKeys: page
    attempt,        \* SearchForKeys: attempt
    allItems,       \* SearchForKeys: len(allItems)
    totalCount,     \* SearchForKeys: totalCount
    expectedTotal,  \* SearchForKeys: expectedTotal
    \* ---- items of a query result (handleQueryResult)
    hqPc,           \* where handleQueryResult stands
    hqItems,        \* len(result.Items)
    hqSpawned,      \* the goroutines the range loop has started
    itemState,      \* per item: its goroutine started, processing or done
    \* ---- locks of the credential pool (TokenManager.mu, blacklistMu)
    lkPc,           \* per method's goroutine: its next lock operation (0: not in a call)
    rwReaders,      \* per mutex and goroutine: read locks held
    rwWriter,       \* per mutex: the goroutine holding it for writing, or NoOne
    rwPending,      \* per mutex: the goroutine waiting inside Lock, or NoOne
    \* ---- metrics of the task scheduler (WorkerPool.GetMetrics)
    gmPc,           \* where GetMetrics stands
    gmMetrics       \* the PoolMetrics GetMetrics is building

tmVars == <<tokens, current, blacklist, mu, tmPc, tmAttempts, tmRet, held, recent>>
wpVars == <<taskQueue, tqClosed, resultQueue, rqClosed, ctxDone, started, stopped,
            wstate, wtask, wfailed, runPc, subPc, subTask, subResult, nextTask,
            tasksSubmitted, tasksCompleted, tasksFailed, panicked>>
scVars == <<LastScanTime, ScannedSHAs, ProcessedQueries, skipStats, searchQueries, disk, scPc, qi,
            resultLen, itemIndex, item, reason, loopSkipped, scSnap, sdPc, sdSnap>>
caVars == <<l1Cache, l2Cache, l3Cache, enableL3, lastGet, lastSet, deleted>>
dtVars == <<program, platformName, content, dtPc, keyContexts, validationTasks, keys, validKeys,
            rateLimitedKeys, validationCalls, validFile, rateLimitedFile>>
vkVars == <<vkPlatform, vkKey, vkResponse, vkResult>>
ckVars == <<ckMem, ckFile, ckPc, ckSaved, ckLoaded>>
nqVars == <<nqQuery, nqPc, nqOnce, nqTwice>>
ghVars == <<ghKind, cToken, ghPc, retryCount, srToken, srRequests, srStatus, ghResult,
            tokenPtr, page, attempt, allItems, totalCount, expectedTotal>>
hqVars == <<hqPc, hqItems, hqSpawned, itemState>>
lkVars == <<lkPc, rwReaders, rwWriter, rwPending>>
gmVars == <<gmPc, gmMetrics>>
vars == <<now, tmVars, wpVars, scVars, caVars, dtVars, vkVars, ckVars, nqVars, ghVars, hqVars, lkVars, gmVars>>
\* what each component's actions leave alone
tmOthers == <<wpVars, scVars, caVars, dtVars, vkVars, ckVars, nqVars, ghVars, hqVars, lkVars, gmVars>>
wpOthers == <<now, tmVars, scVars, caVars, dtVars, vkVars, ckVars, nqVars, ghVars, hqVars, lkVars, gmVars>>
scOthers == <<tmVars, wpVars, caVars, dtVars, vkVars, ckVars, nqVars, ghVars, hqVars, lkVars, gmVars>>
caOthers == <<tmVars, wpVars, scVars, dtVars, vkVars, ckVars, nqVars, ghVars, hqVars, lkVars, gmVars>>
dtOthers == <<now, tmVars, wpVars, scVars, caVars, vkVars, ckVars, nqVars, ghVars, hqVars, lkVars, gmVars>>
vkOthers == <<now, tmVars, wpVars, scVars, caVars, dtVars, ckVars, nqVars, ghVars, hqVars, lkVars, gmVars>>
ckOthers == <<now, tmVars, wpVars, scVars, caVars, dtVars, vkVars, nqVars, ghVars, hqVars, lkVars, gmVars>>
nqOthers == <<now, tmVars, wpVars, scVars, caVars, dtVars, vkVars, ckVars, ghVars, hqVars, lkVars, gmVars>>
ghOthers == <<wpVars, scVars, caVars, dtVars, vkVars, ckVars, nqVars, hqVars, lkVars, gmVars>>
hqOthers == <<now, tmVars, wpVars, scVars, caVars, dtVars, vkVars, ckVars, nqVars, ghVars, lkVars, gmVars>>
lkOthers == <<now, tmVars, wpVars, scVars, caVars, dtVars, vkVars, ckVars, nqVars, ghVars, hqVars, gmVars>>
gmOthers == <<now, tmVars, wpVars, scVars, caVars, dtVars, vkVars, ckVars, nqVars, ghVars, hqVars, lkVars>>

\* ------------------------------------------------------------------ bounds
MaxTime == 4            \* the clock runs 0..MaxTime
NumTokens == 2          \* configured GitHub tokens
BlacklistTTL == 2       \* tm.blacklistTTL (5 minutes) in clock ticks

Clients == {"c1", "c2"} \* goroutines sharing the TokenManager
NoOne == "none"
NotListed == -1         \* no entry in the blacklist map
NoToken == 0            \* GetNextToken's "" with the "no available tokens" error

TokenIds == 1..NumTokens

\* All orders rand.Shuffle can leave the token list in.
Shuffles(S) ==
    {f \in [1..Cardinality(S) -> S] : \A i, j \in DOMAIN f : i # j => f[i] # f[j]}

\* ------------------------------------------------------------------ clock
Tick ==
    /\ now < MaxTime
    /\ now' = now + 1

\* ------------------------------------------------------- credential pool
\* mutant: an entry still counts at the very end of its TTL
isBlacklisted_Late(token) ==
    /\ blacklist[token] # NotListed
    /\ now - blacklist[token] <= BlacklistTTL

\* isBlacklisted: entry exists and time.Since(entry) < blacklistTTL
isBlacklisted(token) ==
    /\ blacklist[token] # NotListed
    /\ now - blacklist[token] < BlacklistTTL

\* cleanBlacklist: delete every entry with now.Sub(entry) >= blacklistTTL
cleanBlacklist ==
    [t \in TokenIds |->
        IF blacklist[t] # NotListed /\ now - blacklist[t] >= BlacklistTTL
        THEN NotListed ELSE blacklist[t]]

InitTokens ==
    /\ tokens \in Shuffles(TokenIds)
    /\ current = 0
    /\ blacklist = [t \in TokenIds |-> NotListed]
    /\ mu = NoOne
    /\ tmPc = [c \in Clients |-> "idle"]
    /\ tmAttempts = [c \in Clients |-> 0]
    /\ tmRet = [c \in Clients |-> NoToken]
    /\ held = [c \in Clients |-> NoToken]
    /\ recent = <<>>

\* The credential pool left untouched by the other specifications.
IdleTokens ==
    /\ tokens = [i \in 1..NumTokens |-> i]
    /\ current = 0
    /\ blacklist = [t \in TokenIds |-> NotListed]
    /\ mu = NoOne
    /\ tmPc = [c \in Clients |-> "idle"]
    /\ tmAttempts = [c \in Clients |-> 0]
    /\ tmRet = [c \in Clients |-> NoToken]
    /\ held = [c \in Clients |-> NoToken]
    /\ recent = <<>>

\* GetNextToken, tm.mu.Lock()
GetNextToken_Lock(c) ==
    /\ tmPc[c] = "idle"
    /\ mu = NoOne
    /\ mu' = c
    /\ tmPc' = [tmPc EXCEPT ![c] = "clean"]
    /\ UNCHANGED <<now, tokens, current, blacklist, tmAttempts, tmRet, held, recent, tmOthers>>

\* GetNextToken, tm.cleanBlacklist() (under blacklistMu), attempts := 0
GetNextToken_Clean(c) ==
    /\ tmPc[c] = "clean"
    /\ blacklist' = cleanBlacklist
    /\ tmAttempts' = [tmAttempts EXCEPT ![c] = 0]
    /\ tmPc' = [tmPc EXCEPT ![c] = "scan"]
    /\ UNCHANGED <<now, tokens, current, mu, tmRet, held, recent, tmOthers>>

\* the last len(tokens) entries of a list of calls
LastCalls(calls) == IF Len(calls) > Len(tokens) THEN Tail(calls) ELSE calls

\* mutant: the cursor stays on a token that is returned
GetNextToken_Scan_Stay(c) ==
    /\ tmPc[c] = "scan"
    /\ IF tmAttempts[c] < Len(tokens)
       THEN LET token == tokens[current + 1] IN
            /\ current' = IF isBlacklisted(token) THEN (current + 1) % Len(tokens)
                           ELSE current
            /\ IF ~isBlacklisted(token)
               THEN /\ tmRet' = [tmRet EXCEPT ![c] = token]
                    /\ tmPc' = [tmPc EXCEPT ![c] = "ret"]
                    /\ UNCHANGED tmAttempts
               ELSE /\ tmAttempts' = [tmAttempts EXCEPT ![c] = @ + 1]
                    /\ UNCHANGED <<tmRet, tmPc>>
       ELSE /\ tmRet' = [tmRet EXCEPT ![c] = NoToken]
            /\ tmPc' = [tmPc EXCEPT ![c] = "ret"]
            /\ UNCHANGED <<current, tmAttempts>>
    /\ UNCHANGED <<now, tokens, blacklist, mu, held, tmOthers>>
    /\ recent' = IF tmAttempts[c] < Len(tokens) /\ \A t \in TokenIds : ~isBlacklisted(t)
                 THEN LastCalls(Append(recent, tokens[current + 1]))
                 ELSE <<>>

\* GetNextToken, one pass of the loop: read tokens[current], isBlacklisted
\* (under blacklistMu.RLock), advance the cursor
GetNextToken_Scan(c) ==
    /\ tmPc[c] = "scan"
    /\ IF tmAttempts[c] < Len(tokens)
       THEN LET token == tokens[current + 1] IN
            /\ current' = (current + 1) % Len(tokens)
            /\ IF ~isBlacklisted(token)
               THEN /\ tmRet' = [tmRet EXCEPT ![c] = token]
                    /\ tmPc' = [tmPc EXCEPT ![c] = "ret"]
                    /\ UNCHANGED tmAttempts
               ELSE /\ tmAttempts' = [tmAttempts EXCEPT ![c] = @ + 1]
                    /\ UNCHANGED <<tmRet, tmPc>>
       ELSE /\ tmRet' = [tmRet EXCEPT ![c] = NoToken]
            /\ tmPc' = [tmPc EXCEPT ![c] = "ret"]
            /\ UNCHANGED <<current, tmAttempts>>
    /\ UNCHANGED <<now, tokens, blacklist, mu, held, tmOthers>>
    /\ recent' = IF tmAttempts[c] < Len(tokens) /\ \A t \in TokenIds : ~isBlacklisted(t)
                 THEN LastCalls(Append(recent, tokens[current + 1]))
                 ELSE <<>>

\* GetNextToken returns (deferred tm.mu.Unlock()); the caller keeps the token
GetNextToken_Return(c) ==
    /\ tmPc[c] = "ret"
    /\ mu' = NoOne
    /\ held' = [held EXCEPT ![c] = tmRet[c]]
    /\ tmPc' = [tmPc EXCEPT ![c] = "idle"]
    /\ UNCHANGED <<now, tokens, current, blacklist, tmAttempts, tmRet, recent, tmOthers>>

\* BlacklistToken(token, reason), called by a client for the token it used
\* (401/403/429 from the search API); takes only blacklistMu
BlacklistToken(c) ==
    /\ tmPc[c] = "idle"
    /\ held[c] # NoToken
    /\ blacklist' = [blacklist EXCEPT ![held[c]] = now]
    /\ UNCHANGED <<now, tokens, current, mu, tmPc, tmAttempts, tmRet, held, tmOthers>>
    /\ recent' = <<>>

TickTokens == Tick /\ UNCHANGED <<tmVars, tmOthers>>

NextTokens ==
    \/ TickTokens
    \/ \E c \in Clients : GetNextToken_Lock(c)
    \/ \E c \in Clients : GetNextToken_Clean(c)
    \/ \E c \in Clients : GetNextToken_Scan(c)
    \/ \E c \in Clients : GetNextToken_Return(c)
    \/ \E c \in Clients : BlacklistToken(c)


\* ------------------------------------------------------- task scheduler
\* (a panic ends the process: every step requires ~panicked)
MaxWorkers == 1         \* cfg.WorkerPoolSize
Submitters == {"s1"}    \* goroutines calling SubmitTask
PoolWorkers == 1..MaxWorkers

\* mutant: the task channel buffers one task more
TaskQueueCap_OneMore == MaxWorkers * 2 + 1

\* NewWorkerPool: make(chan Task, maxWorkers*2)
TaskQueueCap == MaxWorkers * 2
\* NewWorkerPool: make(chan Result, maxWorkers*2)
ResultQueueCap == MaxWorkers * 2
\* Task.GetPriority of the tasks of a run, in the order they are created:
\* QueryTasks of the OpenRouter platform (Priority 2) alternate with
\* ValidationTasks (Priority 1)
GetPriority(task) == IF task % 2 = 1 THEN 2 ELSE 1
\* tasks the callers create in one run
MaxTasks == TaskQueueCap + 1

InitPool ==
    /\ taskQueue = <<>>
    /\ tqClosed = FALSE
    /\ resultQueue = <<>>
    /\ rqClosed = FALSE
    /\ ctxDone = FALSE
    /\ started = 0
    /\ stopped = 0
    /\ wstate = [w \in PoolWorkers |-> "none"]
    /\ wtask = [w \in PoolWorkers |-> 0]
    /\ wfailed = [w \in PoolWorkers |-> FALSE]
    /\ runPc = "start"
    /\ subPc = [s \in Submitters |-> "idle"]
    /\ subTask = [s \in Submitters |-> 0]
    /\ subResult = [s \in Submitters |-> "none"]
    /\ nextTask = 0
    /\ tasksSubmitted = 0
    /\ tasksCompleted = 0
    /\ tasksFailed = 0
    /\ panicked = FALSE

\* The scheduler left untouched by the other specifications.
IdlePool == InitPool

\* Run: hk.workerPool.Start() -- CAS started 0->1, spawn maxWorkers goroutines
Start ==
    /\ ~panicked
    /\ runPc = "start"
    /\ started = 0
    /\ started' = 1
    /\ wstate' = [w \in PoolWorkers |-> "select"]
    /\ runPc' = "running"
    /\ UNCHANGED <<taskQueue, tqClosed, resultQueue, rqClosed, ctxDone, stopped, wtask,
                   wfailed, subPc, subTask, subResult, nextTask, tasksSubmitted,
                   tasksCompleted, tasksFailed, panicked, wpOthers>>

\* Run: the shutdown signal arrived, the deferred Stop() begins: CAS stopped 0->1
Stop_CAS ==
    /\ ~panicked
    /\ runPc = "running"
    /\ stopped = 0
    /\ stopped' = 1
    /\ runPc' = "stop_cancel"
    /\ UNCHANGED <<taskQueue, tqClosed, resultQueue, rqClosed, ctxDone, started, wstate,
                   wtask, wfailed, subPc, subTask, subResult, nextTask, tasksSubmitted,
                   tasksCompleted, tasksFailed, panicked, wpOthers>>

\* Stop: wp.cancel()
Stop_Cancel ==
    /\ ~panicked
    /\ runPc = "stop_cancel"
    /\ ctxDone' = TRUE
    /\ runPc' = "stop_close"
    /\ UNCHANGED <<taskQueue, tqClosed, resultQueue, rqClosed, started, stopped, wstate,
                   wtask, wfailed, subPc, subTask, subResult, nextTask, tasksSubmitted,
                   tasksCompleted, tasksFailed, panicked, wpOthers>>

\* Stop: close(wp.taskQueue)
Stop_CloseTasks ==
    /\ ~panicked
    /\ runPc = "stop_close"
    /\ tqClosed' = TRUE
    /\ runPc' = "stop_wait"
    /\ UNCHANGED <<taskQueue, resultQueue, rqClosed, ctxDone, started, stopped, wstate,
                   wtask, wfailed, subPc, subTask, subResult, nextTask, tasksSubmitted,
                   tasksCompleted, tasksFailed, panicked, wpOthers>>

\* mutant: Stop does not wait for the workers
WaitGroupZero_NoWait == TRUE

\* wp.wg.Wait() can return: every goroutine Start added has called wg.Done()
WaitGroupZero == \A w \in PoolWorkers : wstate[w] \in {"none", "exited"}

\* Stop: wp.wg.Wait()
Stop_Wait ==
    /\ ~panicked
    /\ runPc = "stop_wait"
    /\ WaitGroupZero
    /\ runPc' = "stop_closeres"
    /\ UNCHANGED <<taskQueue, tqClosed, resultQueue, rqClosed, ctxDone, started, stopped,
                   wstate, wtask, wfailed, subPc, subTask, subResult, nextTask,
                   tasksSubmitted, tasksCompleted, tasksFailed, panicked, wpOthers>>

\* Stop: close(wp.resultQueue); return nil
Stop_CloseResults ==
    /\ ~panicked
    /\ runPc = "stop_closeres"
    /\ rqClosed' = TRUE
    /\ runPc' = "stopped"
    /\ UNCHANGED <<taskQueue, tqClosed, resultQueue, ctxDone, started, stopped, wstate,
                   wtask, wfailed, subPc, subTask, subResult, nextTask, tasksSubmitted,
                   tasksCompleted, tasksFailed, panicked, wpOthers>>

\* SubmitTask: atomic.LoadInt32(&wp.stopped) == 1 -> "worker pool is stopped"
SubmitTask_Check(s) ==
    /\ ~panicked
    /\ runPc # "start"
    /\ subPc[s] = "idle"
    /\ nextTask < MaxTasks
    /\ nextTask' = nextTask + 1
    /\ subTask' = [subTask EXCEPT ![s] = nextTask + 1]
    /\ IF stopped = 1
       THEN /\ subResult' = [subResult EXCEPT ![s] = "stopped"]
            /\ UNCHANGED subPc
       ELSE /\ subResult' = [subResult EXCEPT ![s] = "none"]
            /\ subPc' = [subPc EXCEPT ![s] = "select"]
    /\ UNCHANGED <<taskQueue, tqClosed, resultQueue, rqClosed, ctxDone, started, stopped,
                   wstate, wtask, wfailed, runPc, tasksSubmitted, tasksCompleted,
                   tasksFailed, panicked, wpOthers>>

\* what SubmitTask's select finds ready
SendReady == tqClosed \/ Len(taskQueue) < TaskQueueCap

\* SubmitTask, select case wp.taskQueue <- task (queue open, buffer has room)
SubmitTask_Send(s) ==
    /\ ~panicked
    /\ subPc[s] = "select"
    /\ ~tqClosed
    /\ Len(taskQueue) < TaskQueueCap
    /\ taskQueue' = Append(taskQueue, subTask[s])
    /\ tasksSubmitted' = tasksSubmitted + 1
    /\ subResult' = [subResult EXCEPT ![s] = "ok"]
    /\ subPc' = [subPc EXCEPT ![s] = "idle"]
    /\ UNCHANGED <<tqClosed, resultQueue, rqClosed, ctxDone, started, stopped, wstate,
                   wtask, wfailed, runPc, subTask, nextTask, tasksCompleted, tasksFailed,
                   panicked, wpOthers>>

\* SubmitTask, select case wp.taskQueue <- task chosen on a closed channel: panic
SubmitTask_SendClosed(s) ==
    /\ ~panicked
    /\ subPc[s] = "select"
    /\ tqClosed
    /\ panicked' = TRUE
    /\ subResult' = [subResult EXCEPT ![s] = "panic"]
    /\ subPc' = [subPc EXCEPT ![s] = "idle"]
    /\ UNCHANGED <<taskQueue, tqClosed, resultQueue, rqClosed, ctxDone, started, stopped,
                   wstate, wtask, wfailed, runPc, subTask, nextTask, tasksSubmitted,
                   tasksCompleted, tasksFailed, wpOthers>>

\* SubmitTask, select case <-wp.ctx.Done()
SubmitTask_Cancelled(s) ==
    /\ ~panicked
    /\ subPc[s] = "select"
    /\ ctxDone
    /\ subResult' = [subResult EXCEPT ![s] = "cancelled"]
    /\ subPc' = [subPc EXCEPT ![s] = "idle"]
    /\ UNCHANGED <<taskQueue, tqClosed, resultQueue, rqClosed, ctxDone, started, stopped,
                   wstate, wtask, wfailed, runPc, subTask, nextTask, tasksSubmitted,
                   tasksCompleted, tasksFailed, panicked, wpOthers>>

\* SubmitTask, select default: no case ready -> "task queue is full"
SubmitTask_Full(s) ==
    /\ ~panicked
    /\ subPc[s] = "select"
    /\ ~SendReady
    /\ ~ctxDone
    /\ subResult' = [subResult EXCEPT ![s] = "queue_full"]
    /\ subPc' = [subPc EXCEPT ![s] = "idle"]
    /\ UNCHANGED <<taskQueue, tqClosed, resultQueue, rqClosed, ctxDone, started, stopped,
                   wstate, wtask, wfailed, runPc, subTask, nextTask, tasksSubmitted,
                   tasksCompleted, tasksFailed, panicked, wpOthers>>

\* Worker.run, outer select, case task, ok := <-w.taskQueue with ok
Worker_Receive(w) ==
    /\ ~panicked
    /\ wstate[w] = "select"
    /\ taskQueue # <<>>
    /\ wtask' = [wtask EXCEPT ![w] = Head(taskQueue)]
    /\ taskQueue' = Tail(taskQueue)
    /\ wstate' = [wstate EXCEPT ![w] = "exec"]
    /\ UNCHANGED <<tqClosed, resultQueue, rqClosed, ctxDone, started, stopped, wfailed,
                   runPc, subPc, subTask, subResult, nextTask, tasksSubmitted,
                   tasksCompleted, tasksFailed, panicked, wpOthers>>

\* Worker.run, outer select, receive from the closed and drained queue: !ok, return
Worker_QueueClosed(w) ==
    /\ ~panicked
    /\ wstate[w] = "select"
    /\ tqClosed
    /\ taskQueue = <<>>
    /\ wstate' = [wstate EXCEPT ![w] = "exited"]
    /\ UNCHANGED <<taskQueue, tqClosed, resultQueue, rqClosed, ctxDone, started, stopped,
                   wtask, wfailed, runPc, subPc, subTask, subResult, nextTask,
                   tasksSubmitted, tasksCompleted, tasksFailed, panicked, wpOthers>>

\* Worker.run, outer select, case <-w.ctx.Done(): return
Worker_Cancelled(w) ==
    /\ ~panicked
    /\ wstate[w] = "select"
    /\ ctxDone
    /\ wstate' = [wstate EXCEPT ![w] = "exited"]
    /\ UNCHANGED <<taskQueue, tqClosed, resultQueue, rqClosed, ctxDone, started, stopped,
                   wtask, wfailed, runPc, subPc, subTask, subResult, nextTask,
                   tasksSubmitted, tasksCompleted, tasksFailed, panicked, wpOthers>>

\* Worker.run: result := task.Execute()
Worker_Execute(w) ==
    /\ ~panicked
    /\ wstate[w] = "exec"
    /\ \E err \in BOOLEAN : wfailed' = [wfailed EXCEPT ![w] = err]
    /\ wstate' = [wstate EXCEPT ![w] = "send"]
    /\ UNCHANGED <<taskQueue, tqClosed, resultQueue, rqClosed, ctxDone, started, stopped,
                   wtask, runPc, subPc, subTask, subResult, nextTask, tasksSubmitted,
                   tasksCompleted, tasksFailed, panicked, wpOthers>>

\* Worker.run, inner select, case w.pool.resultQueue <- result
\* (a send on the closed result queue would panic; C3 shows no worker is at the
\* send once the queue is closed)
Worker_Send(w) ==
    /\ ~panicked
    /\ wstate[w] = "send"
    /\ ~rqClosed
    /\ Len(resultQueue) < ResultQueueCap
    /\ resultQueue' = Append(resultQueue, wtask[w])
    /\ IF wfailed[w]
       THEN tasksFailed' = tasksFailed + 1 /\ UNCHANGED tasksCompleted
       ELSE tasksCompleted' = tasksCompleted + 1 /\ UNCHANGED tasksFailed
    /\ wtask' = [wtask EXCEPT ![w] = 0]
    /\ wstate' = [wstate EXCEPT ![w] = "select"]
    /\ UNCHANGED <<taskQueue, tqClosed, rqClosed, ctxDone, started, stopped, wfailed,
                   runPc, subPc, subTask, subResult, nextTask, tasksSubmitted, panicked,
                   wpOthers>>

\* Worker.run, inner select, case <-w.ctx.Done(): return (the result is dropped)
Worker_SendCancelled(w) ==
    /\ ~panicked
    /\ wstate[w] = "send"
    /\ ctxDone
    /\ wtask' = [wtask EXCEPT ![w] = 0]
    /\ wstate' = [wstate EXCEPT ![w] = "exited"]
    /\ UNCHANGED <<taskQueue, tqClosed, resultQueue, rqClosed, ctxDone, started, stopped,
                   wfailed, runPc, subPc, subTask, subResult, nextTask, tasksSubmitted,
                   tasksCompleted, tasksFailed, panicked, wpOthers>>

\* processResults: for result := range hk.workerPool.GetResult()
ProcessResults ==
    /\ ~panicked
    /\ resultQueue # <<>>
    /\ resultQueue' = Tail(resultQueue)
    /\ UNCHANGED <<taskQueue, tqClosed, rqClosed, ctxDone, started, stopped, wstate, wtask,
                   wfailed, runPc, subPc, subTask, subResult, nextTask, tasksSubmitted,
                   tasksCompleted, tasksFailed, panicked, wpOthers>>

NextPool ==
    \/ Start
    \/ Stop_CAS
    \/ Stop_Cancel
    \/ Stop_CloseTasks
    \/ Stop_Wait
    \/ Stop_CloseResults
    \/ \E s \in Submitters : SubmitTask_Check(s)
    \/ \E s \in Submitters : SubmitTask_Send(s)
    \/ \E s \in Submitters : SubmitTask_SendClosed(s)
    \/ \E s \in Submitters : SubmitTask_Cancelled(s)
    \/ \E s \in Submitters : SubmitTask_Full(s)
    \/ \E w \in PoolWorkers : Worker_Receive(w)
    \/ \E w \in PoolWorkers : Worker_QueueClosed(w)
    \/ \E w \in PoolWorkers : Worker_Cancelled(w)
    \/ \E w \in PoolWorkers : Worker_Execute(w)
    \/ \E w \in PoolWorkers : Worker_Send(w)
    \/ \E w \in PoolWorkers : Worker_SendCancelled(w)
    \/ ProcessResults


\* ------------------------------------------------- scan loop, checkpoint
ShaCap == 2             \* the 10000 of `len(ScannedSHAs) > 10000`, scaled
ShaKeep == ShaCap \div 2 \* the 5000 most recent SHAs kept
SaveEvery == 1          \* the 50 of `itemIndex%50 == 0`, scaled
MaxItems == 2           \* most items one search returns
DateRangeDays == 1      \* hk.config.DateRangeDays, in clock ticks

SHAs == 1..(ShaCap + 1)
Paths == {"src/main.go", "docs/readme.md"}
\* item.Repository.PushedAt: 0 is the empty (or unparseable) string
Items == [SHA : SHAs, PushedAt : 0..MaxTime, Path : Paths]
NoItem == [SHA |-> 0, PushedAt |-> 0, Path |-> ""]

\* the query file: parts of each query, by the class NormalizeQuery sorts on
SearchQueries ==
    << <<"other", "language">>, <<"language", "other">>, <<"quoted", "path">> >>

Only(q, class) == SelectSeq(q, LAMBDA part : part = class)
\* NormalizeQuery: quoted strings, other parts, language:, filename:, path:
NormalizeQuery(q) ==
    Only(q, "quoted") \o Only(q, "other") \o Only(q, "language")
        \o Only(q, "filename") \o Only(q, "path")

\* contains(slice, item)
contains(slice, x) == \E i \in 1..Len(slice) : slice[i] = x

\* strings.Contains(strings.ToLower(item.Path), token) for a token of
\* hk.config.FilePathBlacklist ("readme", "docs", ...)
PathBlacklisted(path) == path = "docs/readme.md"

SkipCauses == {"time_filter", "sha_duplicate", "age_filter", "doc_filter"}

\* mutant: the SHA check comes before the time check
shouldSkipItem_ShaFirst(it) ==
    IF contains(ScannedSHAs, it.SHA)
    THEN "sha_duplicate"
    ELSE IF LastScanTime # 0 /\ it.PushedAt # 0 /\ ~(it.PushedAt > LastScanTime)
    THEN "time_filter"
    ELSE IF it.PushedAt # 0 /\ it.PushedAt < now - DateRangeDays
    THEN "age_filter"
    ELSE IF PathBlacklisted(it.Path)
    THEN "doc_filter"
    ELSE ""

\* mutant: the SHA check is missing
shouldSkipItem_NoShaCheck(it) ==
    IF LastScanTime # 0 /\ it.PushedAt # 0 /\ ~(it.PushedAt > LastScanTime)
    THEN "time_filter"
    ELSE IF it.PushedAt # 0 /\ it.PushedAt < now - DateRangeDays
    THEN "age_filter"
    ELSE IF PathBlacklisted(it.Path)
    THEN "doc_filter"
    ELSE ""

\* shouldSkipItem: the reason returned ("" : do not skip)
shouldSkipItem(it) ==
    IF LastScanTime # 0 /\ it.PushedAt # 0 /\ ~(it.PushedAt > LastScanTime)
    THEN "time_filter"
    ELSE IF contains(ScannedSHAs, it.SHA)
    THEN "sha_duplicate"
    ELSE IF it.PushedAt # 0 /\ it.PushedAt < now - DateRangeDays
    THEN "age_filter"
    ELSE IF PathBlacklisted(it.Path)
    THEN "doc_filter"
    ELSE ""

\* mutant: the counters are carried over into the next cycle
resetSkipStats_Keep == skipStats

\* resetSkipStats
resetSkipStats == [c \in SkipCauses |-> 0]

\* mutant: the SHA is recorded twice
RecordSHA_Twice(shas, sha) == Append(Append(shas, sha), sha)

\* mainLoop: trim to the most recent ShaKeep when over ShaCap, then append
RecordSHA(shas, sha) ==
    Append(IF Len(shas) > ShaCap
           THEN SubSeq(shas, Len(shas) - ShaKeep + 1, Len(shas))
           ELSE shas,
           sha)

\* the models.Checkpoint struct as json.MarshalIndent sees it
Checkpoint ==
    [LastScanTime |-> LastScanTime, ScannedSHAs |-> ScannedSHAs,
     ProcessedQueries |-> ProcessedQueries]

\* SaveCheckpoint has returned: its marshalled bytes are gone
NoBytes == [LastScanTime |-> 0, ScannedSHAs |-> <<>>, ProcessedQueries |-> <<>>]

\* mainLoop, top of the inner loop for index idx of n items
ItemLoopPc(idx, n) ==
    IF idx = n THEN "query_done"
    ELSE IF idx > 0 /\ idx % SaveEvery = 0 THEN "item_save"
    ELSE "decide"

\* Run: LoadCheckpoint gave a checkpoint (fresh, or left by an earlier run),
\* GetSearchQueries() the lines of the query file
InitScan(queryFile) ==
    /\ LastScanTime \in {0, 1}
    /\ ScannedSHAs \in {[i \in 1..n |-> i] : n \in 0..ShaCap}
    /\ ProcessedQueries = <<>>
    /\ skipStats = [c \in SkipCauses |-> 0]
    /\ searchQueries = queryFile
    /\ disk = Checkpoint
    /\ scPc = "loop"
    /\ qi = 1
    /\ resultLen = 0
    /\ itemIndex = 0
    /\ item = NoItem
    /\ reason = ""
    /\ loopSkipped = 0
    /\ scSnap = NoBytes
    /\ sdPc = "wait"
    /\ sdSnap = NoBytes

\* The scan loop left untouched by the other specifications.
IdleScan ==
    /\ LastScanTime = 0
    /\ ScannedSHAs = <<>>
    /\ ProcessedQueries = <<>>
    /\ skipStats = [c \in SkipCauses |-> 0]
    /\ searchQueries = <<>>
    /\ disk = Checkpoint
    /\ scPc = "loop"
    /\ qi = 1
    /\ resultLen = 0
    /\ itemIndex = 0
    /\ item = NoItem
    /\ reason = ""
    /\ loopSkipped = 0
    /\ scSnap = NoBytes
    /\ sdPc = "wait"
    /\ sdSnap = NoBytes

\* os.Exit(0) has not run
Running == sdPc # "exited"

\* mainLoop: a cycle begins -- loopCount++, resetSkipStats()
LoopStart ==
    /\ Running
    /\ scPc = "loop"
    /\ skipStats' = resetSkipStats
    /\ loopSkipped' = 0
    /\ qi' = 1
    /\ scPc' = "query"
    /\ UNCHANGED <<searchQueries,
                   now, LastScanTime, ScannedSHAs, ProcessedQueries, disk, resultLen,
                   itemIndex, item, reason, scSnap, sdPc, sdSnap, scOthers>>

\* mainLoop: all queries visited -- LogLoopComplete, sleep 5 seconds
LoopEnd ==
    /\ Running
    /\ scPc = "query"
    /\ qi > Len(searchQueries)
    /\ scPc' = "loop"
    /\ UNCHANGED <<searchQueries,
                   now, LastScanTime, ScannedSHAs, ProcessedQueries, skipStats, disk, qi,
                   resultLen, itemIndex, item, reason, loopSkipped, scSnap, sdPc, sdSnap,
                   scOthers>>

\* mainLoop: the normalized query is in ProcessedQueries -- continue
QuerySkip ==
    /\ Running
    /\ scPc = "query"
    /\ qi <= Len(searchQueries)
    /\ contains(ProcessedQueries, NormalizeQuery(searchQueries[qi]))
    /\ qi' = qi + 1
    /\ UNCHANGED <<searchQueries,
                   now, LastScanTime, ScannedSHAs, ProcessedQueries, skipStats, disk, scPc,
                   resultLen, itemIndex, item, reason, loopSkipped, scSnap, sdPc, sdSnap,
                   scOthers>>

\* mainLoop: SearchForKeys(query) failed -- continue
SearchFailed ==
    /\ Running
    /\ scPc = "query"
    /\ qi <= Len(searchQueries)
    /\ ~contains(ProcessedQueries, NormalizeQuery(searchQueries[qi]))
    /\ qi' = qi + 1
    /\ UNCHANGED <<searchQueries,
                   now, LastScanTime, ScannedSHAs, ProcessedQueries, skipStats, disk, scPc,
                   resultLen, itemIndex, item, reason, loopSkipped, scSnap, sdPc, sdSnap,
                   scOthers>>

\* mainLoop: SearchForKeys(query) returned n items
SearchOk ==
    /\ Running
    /\ scPc = "query"
    /\ qi <= Len(searchQueries)
    /\ ~contains(ProcessedQueries, NormalizeQuery(searchQueries[qi]))
    /\ \E n \in 0..MaxItems :
          /\ resultLen' = n
          /\ scPc' = ItemLoopPc(0, n)
    /\ itemIndex' = 0
    /\ UNCHANGED <<searchQueries,
                   now, LastScanTime, ScannedSHAs, ProcessedQueries, skipStats, disk, qi,
                   item, reason, loopSkipped, scSnap, sdPc, sdSnap, scOthers>>

\* mainLoop, every 50 items: SaveCheckpoint marshals the checkpoint
ItemSave_Marshal ==
    /\ Running
    /\ scPc = "item_save"
    /\ scSnap' = Checkpoint
    /\ scPc' = "item_write"
    /\ UNCHANGED <<searchQueries,
                   now, LastScanTime, ScannedSHAs, ProcessedQueries, skipStats, disk, qi,
                   resultLen, itemIndex, item, reason, loopSkipped, sdPc, sdSnap, scOthers>>

\* mainLoop, every 50 items: SaveCheckpoint writes the file
ItemSave_Write ==
    /\ Running
    /\ scPc = "item_write"
    /\ disk' = scSnap
    /\ scSnap' = NoBytes
    /\ scPc' = "decide"
    /\ UNCHANGED <<searchQueries,
                   now, LastScanTime, ScannedSHAs, ProcessedQueries, skipStats, qi,
                   resultLen, itemIndex, item, reason, loopSkipped, sdPc, sdSnap,
                   scOthers>>

\* mainLoop: shouldSkipItem(item) for the next item of the result; a skipped
\* item bumps its counter and the loop continues
ItemDecide(it) ==
    /\ Running
    /\ scPc = "decide"
    /\ item' = it
    /\ reason' = shouldSkipItem(it)
    /\ IF shouldSkipItem(it) # ""
       THEN /\ skipStats' = [skipStats EXCEPT ![shouldSkipItem(it)] = @ + 1]
            /\ loopSkipped' = loopSkipped + 1
            /\ itemIndex' = itemIndex + 1
            /\ scPc' = ItemLoopPc(itemIndex + 1, resultLen)
       ELSE /\ scPc' = "process"
            /\ UNCHANGED <<skipStats, loopSkipped, itemIndex>>
    /\ UNCHANGED <<searchQueries,
                   now, LastScanTime, ScannedSHAs, ProcessedQueries, disk, qi, resultLen,
                   scSnap, sdPc, sdSnap, scOthers>>

\* mainLoop: processItem(item) returned; record item.SHA
ItemProcess ==
    /\ Running
    /\ scPc = "process"
    /\ ScannedSHAs' = RecordSHA(ScannedSHAs, item.SHA)
    /\ itemIndex' = itemIndex + 1
    /\ scPc' = ItemLoopPc(itemIndex + 1, resultLen)
    /\ UNCHANGED <<searchQueries,
                   now, LastScanTime, ProcessedQueries, skipStats, disk, qi, resultLen,
                   item, reason, loopSkipped, scSnap, sdPc, sdSnap, scOthers>>

\* mainLoop: the query is done -- append it to ProcessedQueries, set
\* LastScanTime, SaveCheckpoint marshals the checkpoint
QueryDone ==
    /\ Running
    /\ scPc = "query_done"
    /\ ProcessedQueries' = Append(ProcessedQueries, NormalizeQuery(searchQueries[qi]))
    /\ LastScanTime' = now
    /\ scSnap' = [LastScanTime |-> now, ScannedSHAs |-> ScannedSHAs,
                  ProcessedQueries |-> ProcessedQueries']
    /\ item' = NoItem
    /\ reason' = ""
    /\ scPc' = "query_write"
    /\ UNCHANGED <<searchQueries,
                   now, ScannedSHAs, skipStats, disk, qi, resultLen, itemIndex,
                   loopSkipped, sdPc, sdSnap, scOthers>>

\* mainLoop: SaveCheckpoint writes the file; next query
QuerySave_Write ==
    /\ Running
    /\ scPc = "query_write"
    /\ disk' = scSnap
    /\ scSnap' = NoBytes
    /\ qi' = qi + 1
    /\ scPc' = "query"
    /\ UNCHANGED <<searchQueries,
                   now, LastScanTime, ScannedSHAs, ProcessedQueries, skipStats, resultLen,
                   itemIndex, item, reason, loopSkipped, sdPc, sdSnap, scOthers>>

\* Run: the signal arrived; handleShutdown sets checkpoint.LastScanTime
Shutdown_SetTime ==
    /\ sdPc = "wait"
    /\ LastScanTime' = now
    /\ sdPc' = "save"
    /\ UNCHANGED <<searchQueries,
                   now, ScannedSHAs, ProcessedQueries, skipStats, disk, scPc, qi, resultLen,
                   itemIndex, item, reason, loopSkipped, scSnap, sdSnap, scOthers>>

\* handleShutdown: SaveCheckpoint marshals the checkpoint
Shutdown_Marshal ==
    /\ sdPc = "save"
    /\ sdSnap' = Checkpoint
    /\ sdPc' = "write"
    /\ UNCHANGED <<searchQueries,
                   now, LastScanTime, ScannedSHAs, ProcessedQueries, skipStats, disk, scPc,
                   qi, resultLen, itemIndex, item, reason, loopSkipped, scSnap, scOthers>>

\* handleShutdown: SaveCheckpoint writes the file
Shutdown_Write ==
    /\ sdPc = "write"
    /\ disk' = sdSnap
    /\ sdSnap' = NoBytes
    /\ sdPc' = "exit"
    /\ UNCHANGED <<searchQueries,
                   now, LastScanTime, ScannedSHAs, ProcessedQueries, skipStats, scPc, qi,
                   resultLen, itemIndex, item, reason, loopSkipped, scSnap, scOthers>>

\* handleShutdown: syncUtils.Stop(), apiServer.Stop(), os.Exit(0)
Shutdown_Exit ==
    /\ sdPc = "exit"
    /\ sdPc' = "exited"
    /\ UNCHANGED <<searchQueries,
                   now, LastScanTime, ScannedSHAs, ProcessedQueries, skipStats, disk, scPc,
                   qi, resultLen, itemIndex, item, reason, loopSkipped, scSnap, sdSnap,
                   scOthers>>

TickScan == Running /\ Tick /\ UNCHANGED <<scVars, scOthers>>

NextScan ==
    \/ TickScan
    \/ LoopStart
    \/ LoopEnd
    \/ QuerySkip
    \/ SearchFailed
    \/ SearchOk
    \/ ItemSave_Marshal
    \/ ItemSave_Write
    \/ \E it \in Items : ItemDecide(it)
    \/ ItemProcess
    \/ QueryDone
    \/ QuerySave_Write

\* the scan loop, and a termination signal that may arrive at any moment
NextShutdown ==
    \/ TickScan
    \/ LoopStart
    \/ LoopEnd
    \/ QuerySkip
    \/ SearchFailed
    \/ SearchOk
    \/ ItemSave_Marshal
    \/ ItemSave_Write
    \/ \E it \in Items : ItemDecide(it)
    \/ ItemProcess
    \/ QueryDone
    \/ QuerySave_Write
    \/ Shutdown_SetTime
    \/ Shutdown_Marshal
    \/ Shutdown_Write
    \/ Shutdown_Exit

\* the scan loop with the client whose SearchForKeys returns no error
\* (Paging_Finish): every query is completed in the cycle that first visits
\* it, so items are processed in the first cycle of a run only
NextCycle ==
    \/ TickScan
    \/ LoopStart
    \/ LoopEnd
    \/ QuerySkip
    \/ SearchOk
    \/ ItemSave_Marshal
    \/ ItemSave_Write
    \/ \E it \in Items : ItemDecide(it)
    \/ ItemProcess
    \/ QueryDone
    \/ QuerySave_Write

\* ---- the checkpoint file between the steps of os.WriteFile
\* the file after os.WriteFile's O_TRUNC, before the data is written: no scan
\* time, no SHA, no query (LoadCheckpoint fails on it and Run returns)
FileTruncated == [LastScanTime |-> 0, ScannedSHAs |-> <<>>, ProcessedQueries |-> <<>>]

\* SaveCheckpoint inside os.WriteFile: the file is open and truncated
Save_Truncated ==
    /\ Running
    /\ scPc \in {"item_write", "query_write"}
    /\ disk # FileTruncated
    /\ disk' = FileTruncated
    /\ UNCHANGED <<searchQueries,
                   now, LastScanTime, ScannedSHAs, ProcessedQueries, skipStats, scPc, qi,
                   resultLen, itemIndex, item, reason, loopSkipped, scSnap, sdPc, sdSnap,
                   scOthers>>

\* mainLoop, every 50 items: os.WriteFile fails, at the open (the file is as
\* it was) or at the write (it stays truncated); SaveCheckpoint returns the
\* error and mainLoop drops it
ItemSave_WriteFails ==
    /\ Running
    /\ scPc = "item_write"
    /\ \E d \in {disk, FileTruncated} : disk' = d
    /\ scSnap' = NoBytes
    /\ scPc' = "decide"
    /\ UNCHANGED <<searchQueries,
                   now, LastScanTime, ScannedSHAs, ProcessedQueries, skipStats, qi,
                   resultLen, itemIndex, item, reason, loopSkipped, sdPc, sdSnap,
                   scOthers>>

\* mainLoop, after a query: os.WriteFile fails and the error is dropped
QuerySave_WriteFails ==
    /\ Running
    /\ scPc = "query_write"
    /\ \E d \in {disk, FileTruncated} : disk' = d
    /\ scSnap' = NoBytes
    /\ qi' = qi + 1
    /\ scPc' = "query"
    /\ UNCHANGED <<searchQueries,
                   now, LastScanTime, ScannedSHAs, ProcessedQueries, skipStats, resultLen,
                   itemIndex, item, reason, loopSkipped, sdPc, sdSnap, scOthers>>

\* the scan loop with a checkpoint file that is written in steps and whose
\* writes can fail
NextCrash ==
    \/ TickScan
    \/ LoopStart
    \/ LoopEnd
    \/ QuerySkip
    \/ SearchFailed
    \/ SearchOk
    \/ ItemSave_Marshal
    \/ Save_Truncated
    \/ ItemSave_Write
    \/ ItemSave_WriteFails
    \/ \E it \in Items : ItemDecide(it)
    \/ ItemProcess
    \/ QueryDone
    \/ QuerySave_Write
    \/ QuerySave_WriteFails


\* ---------------------------------------------------------- content cache
L1MaxSize == 1          \* config.L1MaxSize, scaled
L1TTL == 1              \* config.L1TTL, in clock ticks
L2TTL == 2              \* config.L2TTL, in clock ticks
L3TTL == 4              \* config.L3TTL, in clock ticks
MaxTtl == 2             \* longest ttl a caller passes to Set

CacheKeys == {"k1", "k2"}
\* cached values, by the Go type behind the interface{}
CacheValues == {[type |-> "string", data |-> "a"], [type |-> "int", data |-> "7"]}
\* json.Marshal then json.Unmarshal into an interface{}: numbers come back
\* as float64
JsonRoundTrip(value) ==
    IF value.type = "int" THEN [value EXCEPT !.type = "float64"] ELSE value

NoValue == [type |-> "nil", data |-> ""]
\* no file / no Redis key
NoEntry == [value |-> NoValue, expiresAt |-> -1]
NoGet == [key |-> "", hit |-> FALSE, value |-> NoValue, tier |-> "", expiresAt |-> -1,
          at |-> -1]

\* lru.Cache: position of key, 0 when absent
l1Index(key) ==
    IF \E i \in 1..Len(l1Cache) : l1Cache[i].key = key
    THEN CHOOSE i \in 1..Len(l1Cache) : l1Cache[i].key = key
    ELSE 0
\* lru.Cache.Remove
l1Remove(cache, key) == SelectSeq(cache, LAMBDA en : en.key # key)
\* lru.Cache.Add: the entry becomes the most recently used; the least recently
\* used one is evicted when the cache is over its size
l1Add(cache, key, value, expiresAt) ==
    LET added == Append(l1Remove(cache, key),
                        [key |-> key, value |-> value, expiresAt |-> expiresAt])
    IN  IF Len(added) > L1MaxSize THEN Tail(added) ELSE added

\* FileCache.Get finds an unexpired file
l2Hit(key) == l2Cache[key] # NoEntry /\ ~(now > l2Cache[key].expiresAt)
\* FileCache.Get: an expired file is removed
l2AfterGet(key) ==
    IF l2Cache[key] # NoEntry /\ now > l2Cache[key].expiresAt
    THEN [l2Cache EXCEPT ![key] = NoEntry]
    ELSE l2Cache
\* FileCache.Set
l2Set(cache, key, value, ttl) ==
    [cache EXCEPT ![key] = [value |-> JsonRoundTrip(value), expiresAt |-> now + ttl]]
\* RedisCache.Get: Redis drops a key once its TTL has run out
l3Hit(key) == enableL3 /\ l3Cache[key] # NoEntry /\ now < l3Cache[key].expiresAt

\* NewMultiLevelCache
InitCache ==
    /\ l1Cache = <<>>
    /\ l2Cache = [k \in CacheKeys |-> NoEntry]
    /\ l3Cache = [k \in CacheKeys |-> NoEntry]
    /\ enableL3 \in BOOLEAN
    /\ lastGet = NoGet
    /\ lastSet = [k \in CacheKeys |-> NoEntry]
    /\ deleted = {}

\* The cache left untouched by the other specifications.
IdleCache ==
    /\ l1Cache = <<>>
    /\ l2Cache = [k \in CacheKeys |-> NoEntry]
    /\ l3Cache = [k \in CacheKeys |-> NoEntry]
    /\ enableL3 = FALSE
    /\ lastGet = NoGet
    /\ lastSet = [k \in CacheKeys |-> NoEntry]
    /\ deleted = {}

\* Get: the L1 entry is there and has not expired
Get_L1(key) ==
    /\ l1Index(key) # 0
    /\ now < l1Cache[l1Index(key)].expiresAt
    /\ l1Cache' = Append(l1Remove(l1Cache, key), l1Cache[l1Index(key)])
    /\ lastGet' = [key |-> key, hit |-> TRUE, value |-> l1Cache[l1Index(key)].value,
                   tier |-> "L1", expiresAt |-> l1Cache[l1Index(key)].expiresAt,
                   at |-> now]
    /\ UNCHANGED <<now, l2Cache, l3Cache, enableL3, lastSet, deleted, caOthers>>

\* Get misses L1 (absent, or expired and removed)
L1Miss(key) ==
    IF l1Index(key) = 0 THEN TRUE ELSE ~(now < l1Cache[l1Index(key)].expiresAt)

\* Get: L1 misses, the file cache has the key; promote to L1
Get_L2(key) ==
    /\ L1Miss(key)
    /\ l2Hit(key)
    /\ l1Cache' = l1Add(l1Remove(l1Cache, key), key, l2Cache[key].value, now + L1TTL)
    /\ lastGet' = [key |-> key, hit |-> TRUE, value |-> l2Cache[key].value,
                   tier |-> "L2", expiresAt |-> l2Cache[key].expiresAt, at |-> now]
    /\ UNCHANGED <<now, l2Cache, l3Cache, enableL3, lastSet, deleted, caOthers>>

\* Get on a Redis hit that promotes to L1 only
Get_L3_L1Only(key) ==
    /\ L1Miss(key)
    /\ ~l2Hit(key)
    /\ l3Hit(key)
    /\ l1Cache' = l1Add(l1Remove(l1Cache, key), key, l3Cache[key].value, now + L1TTL)
    /\ l2Cache' = l2AfterGet(key)
    /\ lastGet' = [key |-> key, hit |-> TRUE, value |-> l3Cache[key].value,
                   tier |-> "L3", expiresAt |-> l3Cache[key].expiresAt, at |-> now]
    /\ UNCHANGED <<now, l3Cache, enableL3, lastSet, deleted, caOthers>>

\* Get: L1 and L2 miss, Redis has the key; promote to L1 and L2
Get_L3(key) ==
    /\ L1Miss(key)
    /\ ~l2Hit(key)
    /\ l3Hit(key)
    /\ l1Cache' = l1Add(l1Remove(l1Cache, key), key, l3Cache[key].value, now + L1TTL)
    /\ l2Cache' = l2Set(l2Cache, key, l3Cache[key].value, L2TTL)
    /\ lastGet' = [key |-> key, hit |-> TRUE, value |-> l3Cache[key].value,
                   tier |-> "L3", expiresAt |-> l3Cache[key].expiresAt, at |-> now]
    /\ UNCHANGED <<now, l3Cache, enableL3, lastSet, deleted, caOthers>>

\* Get: every tier misses
Get_Miss(key) ==
    /\ L1Miss(key)
    /\ ~l2Hit(key)
    /\ ~l3Hit(key)
    /\ l1Cache' = l1Remove(l1Cache, key)
    /\ l2Cache' = l2AfterGet(key)
    /\ lastGet' = [key |-> key, hit |-> FALSE, value |-> NoValue, tier |-> "",
                   expiresAt |-> -1, at |-> now]
    /\ UNCHANGED <<now, l3Cache, enableL3, lastSet, deleted, caOthers>>

\* Set: every enabled tier is written
Set_Ok(key, value, ttl) ==
    /\ l1Cache' = l1Add(l1Cache, key, value, now + ttl)
    /\ l2Cache' = l2Set(l2Cache, key, value, L2TTL)
    /\ l3Cache' = IF enableL3
                  THEN [l3Cache EXCEPT ![key] = [value |-> JsonRoundTrip(value),
                                                 expiresAt |-> now + L3TTL]]
                  ELSE l3Cache
    /\ UNCHANGED <<now, enableL3, caOthers>>
    /\ lastGet' = NoGet
    /\ lastSet' = [lastSet EXCEPT ![key] = [value |-> value, expiresAt |-> now + ttl]]
    /\ deleted' = deleted \ {key}

\* Set: the file cannot be written; Set returns the error after the L1 Add
Set_L2Fails(key, value, ttl) ==
    /\ l1Cache' = l1Add(l1Cache, key, value, now + ttl)
    /\ UNCHANGED <<now, l2Cache, l3Cache, enableL3, caOthers>>
    /\ lastGet' = NoGet
    /\ lastSet' = [lastSet EXCEPT ![key] = NoEntry]
    /\ deleted' = deleted \ {key}

\* Set: Redis refuses; Set returns the error after the L1 Add and the L2 Set
Set_L3Fails(key, value, ttl) ==
    /\ enableL3
    /\ l1Cache' = l1Add(l1Cache, key, value, now + ttl)
    /\ l2Cache' = l2Set(l2Cache, key, value, L2TTL)
    /\ UNCHANGED <<now, l3Cache, enableL3, caOthers>>
    /\ lastGet' = NoGet
    /\ lastSet' = [lastSet EXCEPT ![key] = NoEntry]
    /\ deleted' = deleted \ {key}

\* Delete: the key goes from every enabled tier
Delete_Ok(key) ==
    /\ l2Cache[key] # NoEntry
    /\ l1Cache' = l1Remove(l1Cache, key)
    /\ l2Cache' = [l2Cache EXCEPT ![key] = NoEntry]
    /\ l3Cache' = [l3Cache EXCEPT ![key] = NoEntry]
    /\ UNCHANGED <<now, enableL3, caOthers>>
    /\ lastGet' = NoGet
    /\ lastSet' = [lastSet EXCEPT ![key] = NoEntry]
    /\ deleted' = deleted \ {key}

\* Delete: there is no file, os.Remove fails and Delete returns the error
\* after the L1 Remove
Delete_L2Fails(key) ==
    /\ l2Cache[key] = NoEntry
    /\ l1Cache' = l1Remove(l1Cache, key)
    /\ UNCHANGED <<now, l2Cache, l3Cache, enableL3, caOthers>>
    /\ lastGet' = NoGet
    /\ lastSet' = [lastSet EXCEPT ![key] = NoEntry]
    /\ deleted' = IF l3Hit(key) THEN deleted \cup {key} ELSE deleted \ {key}

\* Delete: the file is removed, Redis refuses the Del; Delete returns the error
\* after the L1 Remove and the L2 Delete
Delete_L3Fails(key) ==
    /\ enableL3
    /\ l2Cache[key] # NoEntry
    /\ l1Cache' = l1Remove(l1Cache, key)
    /\ l2Cache' = [l2Cache EXCEPT ![key] = NoEntry]
    /\ UNCHANGED <<now, l3Cache, enableL3, caOthers>>
    /\ lastGet' = NoGet
    /\ lastSet' = [lastSet EXCEPT ![key] = NoEntry]
    /\ deleted' = IF l3Hit(key) THEN deleted \cup {key} ELSE deleted \ {key}

\* cleanup, on the CleanupInterval ticker: expired L1 entries are removed
Cleanup ==
    /\ \E i \in 1..Len(l1Cache) : now > l1Cache[i].expiresAt
    /\ l1Cache' = SelectSeq(l1Cache, LAMBDA en : ~(now > en.expiresAt))
    /\ UNCHANGED <<now, l2Cache, l3Cache, enableL3, caOthers>>
    /\ lastGet' = NoGet
    /\ UNCHANGED <<lastSet, deleted>>

TickCache ==
    /\ Tick
    /\ lastGet' = NoGet
    /\ UNCHANGED <<l1Cache, l2Cache, l3Cache, enableL3, caOthers>>
    /\ deleted' = {k \in deleted : l3Cache[k].expiresAt > now + 1}
    /\ lastSet' = [k \in CacheKeys |->
                       IF lastSet[k].expiresAt > now + 1 THEN lastSet[k] ELSE NoEntry]

\* Get, Set and every path of Delete
NextDelete ==
    \/ TickCache
    \/ \E k \in CacheKeys : Get_L1(k)
    \/ \E k \in CacheKeys : Get_L2(k)
    \/ \E k \in CacheKeys : Get_L3(k)
    \/ \E k \in CacheKeys : Get_Miss(k)
    \/ \E k \in CacheKeys, v \in CacheValues, ttl \in 1..MaxTtl : Set_Ok(k, v, ttl)
    \/ \E k \in CacheKeys : Delete_Ok(k)
    \/ \E k \in CacheKeys : Delete_L2Fails(k)
    \/ \E k \in CacheKeys : Delete_L3Fails(k)

NextCache ==
    \/ TickCache
    \/ \E k \in CacheKeys : Get_L1(k)
    \/ \E k \in CacheKeys : Get_L2(k)
    \/ \E k \in CacheKeys : Get_L3(k)
    \/ \E k \in CacheKeys : Get_Miss(k)
    \/ \E k \in CacheKeys, v \in CacheValues, ttl \in 1..MaxTtl : Set_Ok(k, v, ttl)
    \/ \E k \in CacheKeys, v \in CacheValues, ttl \in 1..MaxTtl : Set_L2Fails(k, v, ttl)
    \/ \E k \in CacheKeys, v \in CacheValues, ttl \in 1..MaxTtl : Set_L3Fails(k, v, ttl)
    \/ \E k \in CacheKeys : Delete_Ok(k)
    \/ \E k \in CacheKeys : Delete_L2Fails(k)
    \/ Cleanup

\* ------------------------------------------------------ candidate detector
\* File content is a list of lines, a line a list of words separated by one
\* space.  The words stand for these texts:
\*   GKEY, HKEY : two strings AIzaSy + 33 letters and digits (39 characters)
\*   GKEYYOUR_  : GKEY immediately followed by YOUR_
\*   ORKEY      : sk-or- + 32 letters and digits (38 characters)
\*   the others : themselves
\* and the keys the patterns can cut out of them are, besides GKEY, HKEY and
\* ORKEY: GKEYYOUR (GKEY + YOUR), GKEYYOUR_ and ORTAIL (the last 32
\* characters of ORKEY).  Confidence is counted in hundredths.
Words ==
    {"GKEY", "HKEY", "GKEYYOUR_", "ORKEY", "your_api_key", "demo_key",
     "api_secret_token", "..."}
MaxWords == 3
\* the contents of exactly n words: the next word continues the last line
\* or begins a new one
RECURSIVE ContentsOf(_)
ContentsOf(n) ==
    IF n = 1 THEN {<<<<w>>>> : w \in Words}
    ELSE LET shorter == ContentsOf(n - 1)
         IN  {[c EXCEPT ![Len(c)] = Append(c[Len(c)], w)] : c \in shorter, w \in Words}
               \cup {Append(c, <<w>>) : c \in shorter, w \in Words}
Contents == UNION {ContentsOf(n) : n \in 1..MaxWords}

\* strings.Contains(strings.ToLower(content), kw) for the four keywords
KeywordsIn(w) ==
    CASE w = "your_api_key"     -> {"api", "key"}
      [] w = "demo_key"         -> {"key"}
      [] w = "api_secret_token" -> {"api", "secret", "token"}
      [] OTHER                  -> {}
LineKeywords(line) == UNION {KeywordsIn(line[i]) : i \in 1..Len(line)}

\* ca.placeholderPatterns and ca.testKeyPatterns on a lower-cased text
MatchesPlaceholderPattern(s) == s = "your_api_key"
MatchesTestKeyPattern(s) == s = "demo_key"

KeyLen(k) ==
    CASE k \in {"GKEY", "HKEY"} -> 39
      [] k = "GKEYYOUR"         -> 43
      [] k = "GKEYYOUR_"        -> 44
      [] k = "ORKEY"            -> 38
      [] k = "ORTAIL"           -> 32
      [] OTHER                  -> 0
HasDashOrUnderscore(k) == k \in {"GKEYYOUR_", "ORKEY"}

\* skd.patterns: name -> platform and base confidence
patterns ==
    [gemini         |-> [Platform |-> "gemini",      Confidence |-> 90],
     openrouter     |-> [Platform |-> "openrouter",  Confidence |-> 90],
     siliconflow    |-> [Platform |-> "siliconflow", Confidence |-> 90],
     generic_long   |-> [Platform |-> "unknown",     Confidence |-> 30],
     generic_medium |-> [Platform |-> "unknown",     Confidence |-> 20]]
confidenceThreshold == 70

\* pattern.Pattern.FindAllStringIndex on one word: the keys it cuts out
FindAll(p, w) ==
    CASE p = "gemini" ->
            IF w \in {"GKEY", "GKEYYOUR_"} THEN {"GKEY"}
            ELSE IF w = "HKEY" THEN {"HKEY"} ELSE {}
      [] p = "openrouter" -> IF w = "ORKEY" THEN {"ORKEY"} ELSE {}
      [] p = "siliconflow" -> {}
      [] p = "generic_long" ->
            CASE w \in {"GKEY", "HKEY"} -> {w}
              [] w = "GKEYYOUR_"        -> {"GKEYYOUR"}
              [] w = "ORKEY"            -> {"ORTAIL"}
              [] OTHER                  -> {}
      [] p = "generic_medium" ->
            CASE w \in {"GKEY", "HKEY", "GKEYYOUR_"} -> {w}
              [] w = "ORKEY"                         -> {"ORTAIL"}
              [] OTHER                               -> {}

IsPlaceholder(key, line) ==
    \E i \in 1..Len(line) : MatchesPlaceholderPattern(line[i])

IsTestKey(key, line) ==
    \/ \E i \in 1..Len(line) : MatchesTestKeyPattern(line[i])
    \/ MatchesTestKeyPattern(key)

Min(a, b) == IF a < b THEN a ELSE b

calculateConfidence(key, line, p) ==
    Min(100, patterns[p].Confidence
               + 10 * Cardinality(LineKeywords(line))
               + (IF KeyLen(key) > 20 THEN 10 ELSE 0)
               + (IF HasDashOrUnderscore(key) THEN 5 ELSE 0))

analyzeKeyContext(key, line, p) ==
    [Key           |-> key,
     Platform      |-> patterns[p].Platform,
     Pattern       |-> p,
     IsPlaceholder |-> IsPlaceholder(key, line),
     IsTestKey     |-> IsTestKey(key, line),
     Confidence    |-> calculateConfidence(key, line, p),
     LineNumber    |-> 0,
     StartPos      |-> 0]

\* skd.validators: the platforms that have a structural validator
validators == {"gemini", "openrouter", "siliconflow"}
Validate(platform, key) ==
    CASE platform = "gemini"      -> KeyLen(key) = 39 /\ key \in {"GKEY", "HKEY"}
      [] platform = "openrouter"  -> KeyLen(key) = 35 /\ key = "ORKEY"
      [] platform = "siliconflow" -> KeyLen(key) = 35 /\ key = "ORKEY"
      [] OTHER                    -> FALSE

isValidKey_NoValidator(context) ==
    /\ ~context.IsPlaceholder
    /\ ~context.IsTestKey
    /\ ~(context.Confidence < confidenceThreshold)

isValidKey(context) ==
    IF context.IsPlaceholder THEN FALSE
    ELSE IF context.IsTestKey THEN FALSE
    ELSE IF context.Confidence < confidenceThreshold THEN FALSE
    ELSE IF context.Platform \in validators
         THEN Validate(context.Platform, context.Key)
    ELSE TRUE

\* every match of every pattern on every line, analysed
AllMatches(c) ==
    UNION {UNION {UNION {
        {[analyzeKeyContext(k, c[l], p) EXCEPT !.LineNumber = l, !.StartPos = i] :
            k \in FindAll(p, c[l][i])} :
        p \in DOMAIN patterns} : i \in 1..Len(c[l])} : l \in 1..Len(c)}

\* the contexts DetectKeys returns (map order is unspecified: a set)
DetectKeys(c) == {x \in AllMatches(c) : isValidKey(x)}

\* ---- the legacy scanner's own extraction (HajimiKing.processItem)
RECURSIVE Flatten(_)
Flatten(c) == IF c = <<>> THEN <<>> ELSE Head(c) \o Flatten(Tail(c))

\* hk.compiledRegex.FindAllString on one word
compiledRegex(w) ==
    IF w \in {"GKEY", "GKEYYOUR_"} THEN <<"GKEY">>
    ELSE IF w = "HKEY" THEN <<"HKEY">> ELSE <<>>

RECURSIVE extractKeysFromContent(_)
extractKeysFromContent(flat) ==
    IF flat = <<>> THEN <<>>
    ELSE compiledRegex(Head(flat)) \o extractKeysFromContent(Tail(flat))

\* strings.Index(content, key): the first word holding the key's text
TextHolds(w, key) == compiledRegex(w) = <<key>>
IndexOfKey(flat, key) ==
    CHOOSE i \in 1..Len(flat) :
        /\ TextHolds(flat[i], key)
        /\ \A j \in 1..(i - 1) : ~TextHolds(flat[j], key)

\* the 45-character snippet from there holds "..." or, upper-cased, "YOUR_":
\* the key's 39 characters leave room for six more
SnippetIsPlaceholder(flat, i) ==
    IF flat[i] = "GKEYYOUR_" THEN TRUE
    ELSE IF i < Len(flat) THEN flat[i + 1] \in {"...", "your_api_key"}
    ELSE FALSE

filteredKeys(flat) ==
    SelectSeq(extractKeysFromContent(flat),
              LAMBDA key : ~SnippetIsPlaceholder(flat, IndexOfKey(flat, key)))

RECURSIVE unique(_)
unique(slice) ==
    IF slice = <<>> THEN <<>>
    ELSE LET rest == unique(SubSeq(slice, 1, Len(slice) - 1))
             entry == slice[Len(slice)]
         IN  IF \E i \in 1..Len(rest) : rest[i] = entry THEN rest
             ELSE Append(rest, entry)

\* what validateGeminiKey can return
ValidationResults ==
    {"ok", "rate_limited", "not_authorized_key", "disabled", "error:", "unknown_error"}

Programs == {"legacy", "optimized"}
\* the platforms initializePlatforms registers
Platforms == {"gemini", "openrouter", "siliconflow"}

InitDetect ==
    /\ program \in Programs
    /\ platformName \in (IF program = "optimized" THEN Platforms ELSE {"none"})
    /\ content \in Contents
    /\ dtPc = "start"
    /\ keyContexts = {}
    /\ validationTasks = {}
    /\ keys = <<>>
    /\ validKeys = <<>>
    /\ rateLimitedKeys = <<>>
    /\ validationCalls = {}
    /\ validFile = <<>>
    /\ rateLimitedFile = <<>>

IdleDetect ==
    /\ program = "none"
    /\ platformName = "none"
    /\ content = <<>>
    /\ dtPc = "done"
    /\ keyContexts = {}
    /\ validationTasks = {}
    /\ keys = <<>>
    /\ validKeys = <<>>
    /\ rateLimitedKeys = <<>>
    /\ validationCalls = {}
    /\ validFile = <<>>
    /\ rateLimitedFile = <<>>

\* processContentWithSmartDetection up to its loop: DetectKeys(content)
ProcessContentWithSmartDetection ==
    /\ program = "optimized"
    /\ dtPc = "start"
    /\ keyContexts' = DetectKeys(content)
    /\ dtPc' = IF DetectKeys(content) = {} THEN "done" ELSE "contexts"
    /\ UNCHANGED <<program, platformName, content, validationTasks, keys, validKeys,
                   rateLimitedKeys, validationCalls, validFile, rateLimitedFile>>
    /\ UNCHANGED dtOthers

\* processKeyContext: the task is built and SubmitTask accepts it
ProcessKeyContext_Submitted(x) ==
    /\ dtPc = "contexts"
    /\ x \in keyContexts
    /\ validationTasks' = validationTasks \cup {[Platform |-> platformName, Key |-> x.Key, Context |-> x]}
    /\ keyContexts' = keyContexts \ {x}
    /\ dtPc' = IF keyContexts = {x} THEN "done" ELSE "contexts"
    /\ UNCHANGED <<program, platformName, content, keys, validKeys, rateLimitedKeys,
                   validationCalls, validFile, rateLimitedFile>>
    /\ UNCHANGED dtOthers

\* processKeyContext: SubmitTask returns an error, the task is dropped
ProcessKeyContext_Refused(x) ==
    /\ dtPc = "contexts"
    /\ x \in keyContexts
    /\ keyContexts' = keyContexts \ {x}
    /\ dtPc' = IF keyContexts = {x} THEN "done" ELSE "contexts"
    /\ UNCHANGED <<program, platformName, content, validationTasks, keys, validKeys,
                   rateLimitedKeys, validationCalls, validFile, rateLimitedFile>>
    /\ UNCHANGED dtOthers

\* processItem: GetFileContent fails, return 0, 0
ProcessItem_FetchFailed ==
    /\ program = "legacy"
    /\ dtPc = "start"
    /\ dtPc' = "done"
    /\ UNCHANGED <<program, platformName, content, keyContexts, validationTasks, keys, validKeys,
                   rateLimitedKeys, validationCalls, validFile, rateLimitedFile>>
    /\ UNCHANGED dtOthers

\* processItem: extract, drop the placeholders, de-duplicate
ProcessItem_Extract ==
    /\ program = "legacy"
    /\ dtPc = "start"
    /\ keys' = unique(filteredKeys(Flatten(content)))
    /\ dtPc' = IF keys' = <<>> THEN "done" ELSE "validate"
    /\ UNCHANGED <<program, platformName, content, keyContexts, validationTasks, validKeys,
                   rateLimitedKeys, validationCalls, validFile, rateLimitedFile>>
    /\ UNCHANGED dtOthers

\* the validation loop with a rate-limited key counted as valid too
ProcessItem_Validate_Mixed(validationResult) ==
    /\ dtPc = "validate"
    /\ validationCalls' = validationCalls \cup
                            {[Key |-> Head(keys), Result |-> validationResult]}
    /\ validKeys' = IF validationResult \in {"ok", "rate_limited"}
                    THEN Append(validKeys, Head(keys)) ELSE validKeys
    /\ rateLimitedKeys' = IF validationResult = "rate_limited"
                          THEN Append(rateLimitedKeys, Head(keys)) ELSE rateLimitedKeys
    /\ keys' = Tail(keys)
    /\ dtPc' = IF Tail(keys) = <<>> THEN "save" ELSE "validate"
    /\ UNCHANGED <<program, platformName, content, keyContexts, validationTasks, validFile,
                   rateLimitedFile>>
    /\ UNCHANGED dtOthers

\* processItem: one round of the validation loop
ProcessItem_Validate(validationResult) ==
    /\ dtPc = "validate"
    /\ validationCalls' = validationCalls \cup
                            {[Key |-> Head(keys), Result |-> validationResult]}
    /\ validKeys' = IF validationResult = "ok"
                    THEN Append(validKeys, Head(keys)) ELSE validKeys
    /\ rateLimitedKeys' = IF validationResult = "rate_limited"
                          THEN Append(rateLimitedKeys, Head(keys)) ELSE rateLimitedKeys
    /\ keys' = Tail(keys)
    /\ dtPc' = IF Tail(keys) = <<>> THEN "save" ELSE "validate"
    /\ UNCHANGED <<program, platformName, content, keyContexts, validationTasks, validFile,
                   rateLimitedFile>>
    /\ UNCHANGED dtOthers

\* processItem: SaveValidKeys and SaveRateLimitedKeys, each of which can fail
ProcessItem_Save(validWritten, rateLimitedWritten) ==
    /\ dtPc = "save"
    /\ validFile' = IF validKeys # <<>> /\ validWritten THEN validKeys ELSE validFile
    /\ rateLimitedFile' = IF rateLimitedKeys # <<>> /\ rateLimitedWritten
                          THEN rateLimitedKeys ELSE rateLimitedFile
    /\ dtPc' = "done"
    /\ UNCHANGED <<program, platformName, content, keyContexts, validationTasks, keys, validKeys,
                   rateLimitedKeys, validationCalls>>
    /\ UNCHANGED dtOthers

NextDetect ==
    \/ ProcessContentWithSmartDetection
    \/ \E x \in keyContexts : ProcessKeyContext_Submitted(x)
    \/ \E x \in keyContexts : ProcessKeyContext_Refused(x)
    \/ ProcessItem_FetchFailed
    \/ ProcessItem_Extract
    \/ \E r \in ValidationResults : ProcessItem_Validate(r)
    \/ \E v, r \in BOOLEAN : ProcessItem_Save(v, r)

\* ------------------------------------------------------------ key validation
\* Platform.ValidateKey on one key and one answer of the provider.  The HTTP
\* platforms (OpenRouter, SiliconFlow) see a status code and a body; the body
\* is malformed, or JSON without an error object, or JSON whose error.message
\* is one of ErrorMessages.  The Gemini client reports an error text, modelled
\* by the set of marker substrings it holds.
StatusCodes == {200, 201, 401, 403, 429, 500}
ErrorMessages ==
    {"Unauthorized", "Invalid API key", "Too Many Requests", "rate limit",
     "Rate limit exceeded", "Service disabled", "Internal error"}
Bodies == {"malformed", "no error"} \cup ErrorMessages
GeminiMarkers ==
    {"PermissionDenied", "Unauthenticated", "429", "rate limit", "SERVICE_DISABLED"}
HttpResponses == [transport : BOOLEAN, status : StatusCodes, body : Bodies]
GeminiResponses ==
    [client : BOOLEAN, failed : BOOLEAN, errStr : SUBSET GeminiMarkers, resp : BOOLEAN]
NoResponse == [transport |-> FALSE, status |-> 0, body |-> "none"]
NoResult == [Valid |-> FALSE, Response |-> "none"]

\* the keys offered to each platform: one of its own shape, one that is not
KeysFor(platform) ==
    CASE platform = "gemini"      -> {"GKEY", "ORKEY"}
      [] platform = "openrouter"  -> {"ORKEY", "GKEY"}
      [] platform = "siliconflow" -> {"SFKEY", "ORKEY"}

\* isValidFormat of the three platforms: length, prefix, character set
isValidFormat(platform, key) ==
    CASE platform = "gemini" ->
            (IF key = "SFKEY" THEN 35 ELSE KeyLen(key)) = 39 /\ key = "GKEY"
      [] platform = "openrouter" ->
            (IF key = "SFKEY" THEN 35 ELSE KeyLen(key)) = 35 /\ key = "ORKEY"
      [] platform = "siliconflow" ->
            (IF key = "SFKEY" THEN 35 ELSE KeyLen(key)) = 35 /\ key = "SFKEY"

\* the classification of the HTTP platforms, after the format check
HttpResult(r) ==
    IF ~r.transport THEN [Valid |-> FALSE, Response |-> "err.Error()"]
    ELSE IF r.body = "malformed" THEN [Valid |-> FALSE, Response |-> ""]
    ELSE IF r.body # "no error" THEN
        IF r.body \in {"Unauthorized", "Invalid API key"}
        THEN [Valid |-> FALSE, Response |-> "not_authorized_key"]
        ELSE IF r.body \in {"Too Many Requests", "rate limit"}
        THEN [Valid |-> FALSE, Response |-> "rate_limited"]
        ELSE [Valid |-> FALSE, Response |-> "errStr"]
    ELSE IF r.status = 401 THEN [Valid |-> FALSE, Response |-> "not_authorized_key"]
    ELSE IF r.status = 429 THEN [Valid |-> FALSE, Response |-> "rate_limited"]
    ELSE IF r.status # 200 THEN [Valid |-> FALSE, Response |-> "HTTP status"]
    ELSE [Valid |-> TRUE, Response |-> "ok"]

\* the classification of the Gemini platform, after the format check
GeminiResult(r) ==
    IF ~r.client THEN [Valid |-> FALSE, Response |-> "err.Error()"]
    ELSE IF r.failed THEN
        IF r.errStr \cap {"PermissionDenied", "Unauthenticated"} # {}
        THEN [Valid |-> FALSE, Response |-> "not_authorized_key"]
        ELSE IF r.errStr \cap {"429", "rate limit"} # {}
        THEN [Valid |-> FALSE, Response |-> "rate_limited"]
        ELSE IF "SERVICE_DISABLED" \in r.errStr
        THEN [Valid |-> FALSE, Response |-> "disabled"]
        ELSE [Valid |-> FALSE, Response |-> "error:"]
    ELSE IF r.resp THEN [Valid |-> TRUE, Response |-> "ok"]
    ELSE [Valid |-> FALSE, Response |-> "unknown_error"]

InitValidate ==
    /\ vkPlatform \in Platforms
    /\ vkKey \in KeysFor(vkPlatform)
    /\ vkResponse \in IF vkPlatform = "gemini" THEN GeminiResponses ELSE HttpResponses
    /\ vkResult = NoResult

IdleValidate ==
    /\ vkPlatform = "none"
    /\ vkKey = "none"
    /\ vkResponse = NoResponse
    /\ vkResult = NoResult

\* ValidateKey: the key fails the format check, no request is made
ValidateKey_BadFormat ==
    /\ vkPlatform \in Platforms
    /\ vkResult = NoResult
    /\ ~isValidFormat(vkPlatform, vkKey)
    /\ vkResult' = [Valid |-> FALSE, Response |-> ""]
    /\ UNCHANGED <<vkPlatform, vkKey, vkResponse>>
    /\ UNCHANGED vkOthers

\* OpenRouterPlatform.ValidateKey, SiliconFlowPlatform.ValidateKey
ValidateKey_Http ==
    /\ vkPlatform \in {"openrouter", "siliconflow"}
    /\ vkResult = NoResult
    /\ isValidFormat(vkPlatform, vkKey)
    /\ vkResult' = HttpResult(vkResponse)
    /\ UNCHANGED <<vkPlatform, vkKey, vkResponse>>
    /\ UNCHANGED vkOthers

\* GeminiPlatform.ValidateKey
ValidateKey_Gemini ==
    /\ vkPlatform = "gemini"
    /\ vkResult = NoResult
    /\ isValidFormat(vkPlatform, vkKey)
    /\ vkResult' = GeminiResult(vkResponse)
    /\ UNCHANGED <<vkPlatform, vkKey, vkResponse>>
    /\ UNCHANGED vkOthers

NextValidate ==
    \/ ValidateKey_BadFormat
    \/ ValidateKey_Http
    \/ ValidateKey_Gemini

\* ------------------------------------------------------- checkpoint file
\* A Go string is a sequence of characters; 0xFF stands for a byte that is
\* not valid UTF-8 and U+FFFD for the replacement character.  A []string is
\* nil or a list.  The file holds what json.MarshalIndent wrote, or it is
\* missing, unreadable, or not JSON for a Checkpoint.
MaxShaList == 2
MaxQueryList == 1
NilSlice == [isNil |-> TRUE, elems |-> <<>>]
Slice(elems) == [isNil |-> FALSE, elems |-> elems]
SlicesOf(strings, maxLen) ==
    {NilSlice} \cup {Slice(l) : l \in UNION {[1..n -> strings] : n \in 0..maxLen}}
ShaStrings == {<<"a">>, <<"b">>}
QueryStrings == {<<"a">>, <<"<">>, <<"0xFF">>, <<"a", "0xFF">>}
KeyStrings == {<<"a">>}
Checkpoints ==
    [LastScanTime     : {<<>>, <<"a">>},
     ScannedSHAs      : SlicesOf(ShaStrings, MaxShaList),
     ProcessedQueries : SlicesOf(QueryStrings, MaxQueryList),
     WaitSendBalancer : SlicesOf(KeyStrings, 1),
     WaitSendGPTLoad  : SlicesOf(KeyStrings, 1)]

\* LoadCheckpoint's checkpoint for a missing file
FreshCheckpoint ==
    [LastScanTime     |-> <<>>,
     ScannedSHAs      |-> Slice(<<>>),
     ProcessedQueries |-> Slice(<<>>),
     WaitSendBalancer |-> Slice(<<>>),
     WaitSendGPTLoad  |-> Slice(<<>>)]
\* the zero Checkpoint
NoCheckpoint ==
    [LastScanTime     |-> <<>>,
     ScannedSHAs      |-> NilSlice,
     ProcessedQueries |-> NilSlice,
     WaitSendBalancer |-> NilSlice,
     WaitSendGPTLoad  |-> NilSlice]

\* encoding/json on a string: HTML characters are written as \u escapes,
\* invalid UTF-8 as the escape of U+FFFD; reading undoes the escapes
EncodeChar(ch) ==
    CASE ch = "<"    -> "\\u003c"
      [] ch = "0xFF" -> "\\ufffd"
      [] OTHER       -> ch
DecodeChar(tok) ==
    CASE tok = "\\u003c" -> "<"
      [] tok = "\\ufffd" -> "U+FFFD"
      [] OTHER           -> tok
EncodeString(s) == [i \in 1..Len(s) |-> EncodeChar(s[i])]
DecodeString(j) == [i \in 1..Len(j) |-> DecodeChar(j[i])]
\* a nil slice is written as null, which leaves the field nil when read
EncodeSlice(sl) ==
    [null |-> sl.isNil, elems |-> [i \in 1..Len(sl.elems) |-> EncodeString(sl.elems[i])]]
DecodeSlice(j) ==
    [isNil |-> j.null, elems |-> [i \in 1..Len(j.elems) |-> DecodeString(j.elems[i])]]
Marshal(c) ==
    [last_scan_time     |-> EncodeString(c.LastScanTime),
     scanned_shas       |-> EncodeSlice(c.ScannedSHAs),
     processed_queries  |-> EncodeSlice(c.ProcessedQueries),
     wait_send_balancer |-> EncodeSlice(c.WaitSendBalancer),
     wait_send_gpt_load |-> EncodeSlice(c.WaitSendGPTLoad)]
Unmarshal(j) ==
    [LastScanTime     |-> DecodeString(j.last_scan_time),
     ScannedSHAs      |-> DecodeSlice(j.scanned_shas),
     ProcessedQueries |-> DecodeSlice(j.processed_queries),
     WaitSendBalancer |-> DecodeSlice(j.wait_send_balancer),
     WaitSendGPTLoad  |-> DecodeSlice(j.wait_send_gpt_load)]

FileStates == {"missing", "unreadable", "corrupt", "json"}
File(state, c) == [state |-> state, data |-> Marshal(c)]

InitCheckpointFile ==
    /\ ckMem \in Checkpoints
    /\ ckFile \in {File(st, NoCheckpoint) : st \in {"missing", "unreadable", "corrupt"}}
    /\ ckPc = "running"
    /\ ckSaved = FALSE
    /\ ckLoaded = NoCheckpoint

IdleCheckpointFile ==
    /\ ckMem = NoCheckpoint
    /\ ckFile = File("missing", NoCheckpoint)
    /\ ckPc = "off"
    /\ ckSaved = FALSE
    /\ ckLoaded = NoCheckpoint

\* SaveCheckpoint: MarshalIndent, WriteFile; then the process ends
SaveCheckpoint_Ok ==
    /\ ckPc = "running"
    /\ ckFile' = File("json", ckMem)
    /\ ckSaved' = TRUE
    /\ ckPc' = "stopped"
    /\ UNCHANGED <<ckMem, ckLoaded>>
    /\ UNCHANGED ckOthers

\* SaveCheckpoint: WriteFile fails, before or after it truncated the file
SaveCheckpoint_WriteFails(truncated) ==
    /\ ckPc = "running"
    /\ ckFile' = IF truncated /\ ckFile.state # "unreadable"
                 THEN File("corrupt", NoCheckpoint) ELSE ckFile
    /\ ckPc' = "stopped"
    /\ UNCHANGED <<ckMem, ckSaved, ckLoaded>>
    /\ UNCHANGED ckOthers

\* Run, step 3, on a missing file: a fresh checkpoint
LoadCheckpoint_Missing ==
    /\ ckPc = "stopped"
    /\ ckFile.state = "missing"
    /\ ckLoaded' = FreshCheckpoint
    /\ ckPc' = "continues"
    /\ UNCHANGED <<ckMem, ckFile, ckSaved>>
    /\ UNCHANGED ckOthers

\* Run, step 3: os.ReadFile fails, LoadCheckpoint returns the error, Run returns it
LoadCheckpoint_ReadFails ==
    /\ ckPc = "stopped"
    /\ ckFile.state = "unreadable"
    /\ ckPc' = "aborted"
    /\ UNCHANGED <<ckMem, ckFile, ckSaved, ckLoaded>>
    /\ UNCHANGED ckOthers

\* Run, step 3: json.Unmarshal fails, LoadCheckpoint returns the error, Run returns it
LoadCheckpoint_UnmarshalFails ==
    /\ ckPc = "stopped"
    /\ ckFile.state = "corrupt"
    /\ ckPc' = "aborted"
    /\ UNCHANGED <<ckMem, ckFile, ckSaved, ckLoaded>>
    /\ UNCHANGED ckOthers

\* Run, step 3: the file is read and decoded
LoadCheckpoint_Ok ==
    /\ ckPc = "stopped"
    /\ ckFile.state = "json"
    /\ ckLoaded' = Unmarshal(ckFile.data)
    /\ ckPc' = "continues"
    /\ UNCHANGED <<ckMem, ckFile, ckSaved>>
    /\ UNCHANGED ckOthers

NextCheckpointFile ==
    \/ SaveCheckpoint_Ok
    \/ \E truncated \in BOOLEAN : SaveCheckpoint_WriteFails(truncated)
    \/ LoadCheckpoint_Missing
    \/ LoadCheckpoint_ReadFails
    \/ LoadCheckpoint_UnmarshalFails
    \/ LoadCheckpoint_Ok

\* ------------------------------------------------- query normalization, by
\* character.  A query is a sequence of characters; L stands for the text
\* language: and P for path:, which no other character can be part of.
MaxQueryLen == 5
QueryChars == {"a", " ", "\"", "L", "P"}
QueryTexts == UNION {[1..n -> QueryChars] : n \in 0..MaxQueryLen}

\* the length of the run of non-space characters s begins with
WordLen(s) ==
    IF \E i \in 1..Len(s) : s[i] = " "
    THEN (CHOOSE i \in 1..Len(s) : s[i] = " " /\ \A j \in 1..(i - 1) : s[j] # " ") - 1
    ELSE Len(s)

RECURSIVE Fields(_)
Fields(s) ==
    IF s = <<>> THEN <<>>
    ELSE IF Head(s) = " " THEN Fields(Tail(s))
    ELSE <<SubSeq(s, 1, WordLen(s))>> \o Fields(SubSeq(s, WordLen(s) + 1, Len(s)))

RECURSIVE Join(_)
Join(parts) ==
    IF parts = <<>> THEN <<>>
    ELSE IF Len(parts) = 1 THEN parts[1]
    ELSE parts[1] \o <<" ">> \o Join(Tail(parts))

\* strings.Index(s, "\""), 1-based; 0 when there is none
IndexOfQuote(s) ==
    IF \E i \in 1..Len(s) : s[i] = "\""
    THEN CHOOSE i \in 1..Len(s) : s[i] = "\"" /\ \A j \in 1..(i - 1) : s[j] # "\""
    ELSE 0

\* the first loop of NormalizeQuery: the parts of the query
RECURSIVE SplitParts(_)
SplitParts(query) ==
    IF query = <<>> THEN <<>>
    ELSE IF Head(query) = "\"" THEN
        LET endQuote == IndexOfQuote(Tail(query))
        IN  IF endQuote # 0
            THEN <<SubSeq(query, 1, endQuote + 1)>>
                   \o SplitParts(SubSeq(query, endQuote + 2, Len(query)))
            ELSE <<<<"\"">>>> \o SplitParts(Tail(query))
    ELSE IF Head(query) = " " THEN SplitParts(Tail(query))
    ELSE <<SubSeq(query, 1, WordLen(query))>>
           \o SplitParts(SubSeq(query, WordLen(query) + 1, Len(query)))

\* the second loop: the class of a part
PartClass(part) ==
    IF part[1] = "\"" /\ part[Len(part)] = "\"" THEN "quoted"
    ELSE IF part[1] = "L" THEN "language"
    ELSE IF part[1] = "P" THEN "path"
    ELSE "other"

NormalizeQueryText(query) ==
    LET parts == SplitParts(Join(Fields(query)))
        OfClass(c) == SelectSeq(parts, LAMBDA part : PartClass(part) = c)
    IN  Join(OfClass("quoted") \o OfClass("other") \o OfClass("language")
               \o OfClass("path"))

InitNormalize ==
    /\ nqQuery \in QueryTexts
    /\ nqPc = "query"
    /\ nqOnce = <<>>
    /\ nqTwice = <<>>

IdleNormalize ==
    /\ nqQuery = <<>>
    /\ nqPc = "off"
    /\ nqOnce = <<>>
    /\ nqTwice = <<>>

\* NormalizeQuery on the query
Normalize_Query ==
    /\ nqPc = "query"
    /\ nqOnce' = NormalizeQueryText(nqQuery)
    /\ nqPc' = "once"
    /\ UNCHANGED <<nqQuery, nqTwice>>
    /\ UNCHANGED nqOthers

\* NormalizeQuery on what it returned
Normalize_Again ==
    /\ nqPc = "once"
    /\ nqTwice' = NormalizeQueryText(nqOnce)
    /\ nqPc' = "twice"
    /\ UNCHANGED <<nqQuery, nqOnce>>
    /\ UNCHANGED nqOthers

NextNormalize ==
    \/ Normalize_Query
    \/ Normalize_Again

\* ---------------------------------------------------------- search gateway
\* (github.Client of internal/github, built with one token or with a token
\* pool, and the paging github.Client of the first loop; one search call at
\* a time)
PerPage == 2            \* per_page=100, scaled
MaxRetries == 3         \* searchCodeWithRetry: retryCount < 3
MaxAttempts == 5        \* SearchForKeys: attempt <= 5
MaxPages == 10          \* SearchForKeys: page <= 10
\* min(totalCount, 1000): ten full pages
ResultCap == PerPage * MaxPages
\* the largest total_count the API reports
MaxTotal == ResultCap + 1
ClientKinds == {"single", "pool", "paging"}
\* the status of the response; 0: httpClient.Do returned an error
SearchStatuses == {0, 200, 401, 403, 429, 500}
NoSearchResult ==
    [error |-> FALSE, Items |-> -1, TotalCount |-> -1, IncompleteResults |-> FALSE]
SearchError == [NoSearchResult EXCEPT !.error = TRUE]

\* TokenManager.GetNextToken for a caller that is alone: the token returned
\* (NoToken with the error) and where the cursor is left
RECURSIVE GetNextToken(_, _)
GetNextToken(cur, attempts) ==
    IF attempts < Len(tokens)
    THEN IF ~isBlacklisted(tokens[cur + 1])
         THEN [token |-> tokens[cur + 1], current |-> (cur + 1) % Len(tokens)]
         ELSE GetNextToken((cur + 1) % Len(tokens), attempts + 1)
    ELSE [token |-> NoToken, current |-> cur]

\* NewClient(token, ...) with cfg.GitHubToken (empty when not configured),
\* NewClientWithTokens(tokens, ...), whose primary token is the first
\* GetNextToken, or the paging NewClient(tokens)
InitSearch ==
    /\ ghKind \in ClientKinds
    /\ tokens \in Shuffles(TokenIds)
    /\ current = IF ghKind = "pool" THEN 1 % NumTokens ELSE 0
    /\ blacklist = [t \in TokenIds |-> NotListed]
    /\ mu = NoOne
    /\ tmPc = [c \in Clients |-> "idle"]
    /\ tmAttempts = [c \in Clients |-> 0]
    /\ tmRet = [c \in Clients |-> NoToken]
    /\ held = [c \in Clients |-> NoToken]
    /\ recent = <<>>
    /\ cToken \in (CASE ghKind = "single" -> {NoToken, tokens[1]}
                     [] ghKind = "pool" -> {tokens[1]}
                     [] OTHER -> {NoToken})
    /\ ghPc = "idle"
    /\ retryCount = 0
    /\ srToken = NoToken
    /\ srRequests = 0
    /\ srStatus = 0
    /\ ghResult = NoSearchResult
    /\ tokenPtr = 0
    /\ page = 0
    /\ attempt = 0
    /\ allItems = 0
    /\ totalCount = 0
    /\ expectedTotal = 0

\* The gateway left untouched by the other specifications.
IdleSearch ==
    /\ ghKind = "none"
    /\ cToken = NoToken
    /\ ghPc = "idle"
    /\ retryCount = 0
    /\ srToken = NoToken
    /\ srRequests = 0
    /\ srStatus = 0
    /\ ghResult = NoSearchResult
    /\ tokenPtr = 0
    /\ page = 0
    /\ attempt = 0
    /\ allItems = 0
    /\ totalCount = 0
    /\ expectedTotal = 0

pgVars == <<tokenPtr, page, attempt, allItems, totalCount, expectedTotal>>

\* SearchCode: searchCodeWithRetry(query, 0)
SearchCode ==
    /\ ghKind \in {"single", "pool"}
    /\ ghPc \in {"idle", "returned"}
    /\ ghPc' = "getCurrentToken"
    /\ retryCount' = 0
    /\ srToken' = NoToken
    /\ srRequests' = 0
    /\ srStatus' = 0
    /\ ghResult' = NoSearchResult
    /\ UNCHANGED <<now, ghKind, cToken, pgVars, tmVars, ghOthers>>

\* searchCodeWithRetry, token := c.getCurrentToken(): with a token manager
\* c.token is replaced only when GetNextToken returns no error; an empty
\* token ends the call
getCurrentToken ==
    /\ ghPc = "getCurrentToken"
    /\ LET got == GetNextToken(current, 0)
           tok == IF ghKind = "pool" /\ got.token # NoToken THEN got.token ELSE cToken
       IN  /\ cToken' = tok
           /\ srToken' = tok
           /\ IF ghKind = "pool"
              THEN /\ blacklist' = cleanBlacklist
                   /\ current' = got.current
              ELSE UNCHANGED <<blacklist, current>>
           /\ IF tok = NoToken
              THEN /\ ghPc' = "returned"
                   /\ ghResult' = SearchError
              ELSE /\ ghPc' = "send"
                   /\ UNCHANGED ghResult
    /\ UNCHANGED <<now, ghKind, retryCount, srRequests, srStatus, pgVars, tokens, mu, tmPc,
                   tmAttempts, tmRet, held, recent, ghOthers>>

\* searchCodeWithRetry: the request is built with the token and sent
Search_Send(status) ==
    /\ ghPc = "send"
    /\ srRequests' = srRequests + 1
    /\ srStatus' = status
    /\ ghPc' = "response"
    /\ UNCHANGED <<now, ghKind, cToken, retryCount, srToken, ghResult, pgVars, tmVars, ghOthers>>

\* searchCodeWithRetry: the response is handled. 401, 403 and 429 blacklist
\* the token and retry while retryCount < 3, both only with a token manager
Search_Response(items) ==
    /\ ghPc = "response"
    /\ IF srStatus \in {401, 403, 429}
       THEN /\ blacklist' = IF ghKind = "pool"
                            THEN [blacklist EXCEPT ![srToken] = now]
                            ELSE blacklist
            /\ IF ghKind = "pool" /\ retryCount < MaxRetries
               THEN /\ retryCount' = retryCount + 1
                    /\ ghPc' = "getCurrentToken"
                    /\ UNCHANGED ghResult
               ELSE /\ ghPc' = "returned"
                    /\ ghResult' = SearchError
                    /\ UNCHANGED retryCount
       ELSE /\ ghPc' = "returned"
            /\ ghResult' = IF srStatus = 200
                           THEN [NoSearchResult EXCEPT !.Items = items]
                           ELSE SearchError
            /\ UNCHANGED <<blacklist, retryCount>>
    /\ UNCHANGED <<now, ghKind, cToken, srToken, srRequests, srStatus, pgVars, tokens, current,
                   mu, tmPc, tmAttempts, tmRet, held, recent, ghOthers>>

\* SearchForKeys is called: page := 1, attempt := 1
SearchForKeys ==
    /\ ghKind = "paging"
    /\ ghPc \in {"idle", "returned"}
    /\ ghPc' = "attempt"
    /\ page' = 1
    /\ attempt' = 1
    /\ allItems' = 0
    /\ totalCount' = 0
    /\ expectedTotal' = 0
    /\ srToken' = NoToken
    /\ srRequests' = 0
    /\ srStatus' = 0
    /\ ghResult' = NoSearchResult
    /\ UNCHANGED <<now, ghKind, cToken, retryCount, tokenPtr, tmVars, ghOthers>>

\* nextToken: tokens[tokenPtr % len(tokens)], tokenPtr++ (only the remainder
\* of tokenPtr is ever read, and only the remainder is kept here)
nextToken == tokens[(tokenPtr % Len(tokens)) + 1]

\* SearchForKeys, one attempt that fails: a network error (0), 403 or 429,
\* another status >= 400, or a body that cannot be read or decoded (200).
\* After the fifth the page is given up: the loop ends when it was page 1
\* and goes on to the next page otherwise
Paging_AttemptFails(status) ==
    /\ ghPc = "attempt"
    /\ status \in SearchStatuses
    /\ srToken' = nextToken
    /\ tokenPtr' = (tokenPtr + 1) % Len(tokens)
    /\ IF attempt < MaxAttempts
       THEN /\ attempt' = attempt + 1
            /\ UNCHANGED <<page, ghPc>>
       ELSE IF page = 1
            THEN /\ ghPc' = "finish"
                 /\ UNCHANGED <<page, attempt>>
            ELSE /\ page' = IF page < MaxPages THEN page + 1 ELSE page
                 /\ attempt' = IF page < MaxPages THEN 1 ELSE attempt
                 /\ ghPc' = IF page < MaxPages THEN "attempt" ELSE "finish"
    /\ UNCHANGED <<now, ghKind, cToken, retryCount, srRequests, srStatus, allItems, totalCount,
                   expectedTotal, ghResult, tmVars, ghOthers>>

\* SearchForKeys, an attempt that succeeds: the page's items are appended
\* (the answer's total_count is read on page 1 only);
\* page 1 sets totalCount and expectedTotal; the loop ends when
\* expectedTotal > 0 and len(allItems) >= expectedTotal, or after page 10
Paging_PageOk(items, total) ==
    /\ ghPc = "attempt"
    /\ page = 1 \/ total = totalCount
    /\ srToken' = nextToken
    /\ tokenPtr' = (tokenPtr + 1) % Len(tokens)
    /\ totalCount' = IF page = 1 THEN total ELSE totalCount
    /\ expectedTotal' = IF page = 1 THEN Min(total, ResultCap) ELSE expectedTotal
    /\ allItems' = allItems + items
    /\ IF (expectedTotal' > 0 /\ allItems' >= expectedTotal') \/ ~(page < MaxPages)
       THEN /\ ghPc' = "finish"
            /\ UNCHANGED <<page, attempt>>
       ELSE /\ page' = page + 1
            /\ attempt' = 1
            /\ UNCHANGED ghPc
    /\ UNCHANGED <<now, ghKind, cToken, retryCount, srRequests, srStatus, ghResult, tmVars,
                   ghOthers>>

\* mutant: a loss of more than a tenth of the expected items is an error
Paging_Finish_Strict ==
    /\ ghPc = "finish"
    /\ ghPc' = "returned"
    /\ ghResult' = IF expectedTotal > 0 /\ allItems < expectedTotal
                      /\ expectedTotal - allItems > expectedTotal \div 10
                   THEN SearchError
                   ELSE [error |-> FALSE, Items |-> allItems, TotalCount |-> totalCount,
                         IncompleteResults |-> allItems < expectedTotal /\ expectedTotal > 0]
    /\ UNCHANGED <<now, ghKind, cToken, retryCount, srToken, srRequests, srStatus, pgVars,
                   tmVars, ghOthers>>

\* SearchForKeys after the page loop: the integrity check only logs; the
\* result holds every item collected and the error is nil
Paging_Finish ==
    /\ ghPc = "finish"
    /\ ghPc' = "returned"
    /\ ghResult' = [error |-> FALSE, Items |-> allItems, TotalCount |-> totalCount,
                    IncompleteResults |-> allItems < expectedTotal /\ expectedTotal > 0]
    /\ UNCHANGED <<now, ghKind, cToken, retryCount, srToken, srRequests, srStatus, pgVars,
                   tmVars, ghOthers>>

\* time passes; the paging client reads no clock
TickSearch ==
    /\ ghKind \in {"single", "pool"}
    /\ Tick
    /\ UNCHANGED <<tmVars, ghVars, ghOthers>>

NextSearch ==
    \/ TickSearch
    \/ SearchCode
    \/ getCurrentToken
    \/ \E status \in SearchStatuses : Search_Send(status)
    \/ \E items \in 0..PerPage : Search_Response(items)
    \/ SearchForKeys
    \/ \E status \in SearchStatuses : Paging_AttemptFails(status)
    \/ \E items \in 0..PerPage, total \in 0..MaxTotal : Paging_PageOk(items, total)
    \/ Paging_Finish

\* ------------------------------------------- items of one query result
\* (OptimizedHajimiKing.handleQueryResult: one goroutine per item, a
\* semaphore of MaxConcurrentFiles slots, a WaitGroup)
MaxResultItems == 4     \* items in a query result, scaled
MaxConcurrentFiles == 2 \* cfg.MaxConcurrentFiles, scaled
ResultItems == 1..MaxResultItems

InitItems ==
    /\ hqPc = "idle"
    /\ hqItems = 0
    /\ hqSpawned = 0
    /\ itemState = [i \in ResultItems |-> "none"]

\* No query result is being handled.
IdleItems == InitItems

\* the slots of the semaphore that are taken
SemaphoreHeld == Cardinality({i \in ResultItems : itemState[i] = "processing"})

\* handleQueryResult is called with a failed query: it logs and returns
handleQueryResult_Error ==
    /\ hqPc \in {"idle", "returned"}
    /\ hqPc' = "returned"
    /\ hqItems' = 0
    /\ hqSpawned' = 0
    /\ itemState' = [i \in ResultItems |-> "none"]
    /\ UNCHANGED hqOthers

\* handleQueryResult is called with the items of a query, in page order
handleQueryResult(n) ==
    /\ hqPc \in {"idle", "returned"}
    /\ hqPc' = "range"
    /\ hqItems' = n
    /\ hqSpawned' = 0
    /\ itemState' = [i \in ResultItems |-> "none"]
    /\ UNCHANGED hqOthers

\* for _, item := range result.Items: wg.Add(1), go func(item)
Item_Go ==
    /\ hqPc = "range"
    /\ hqSpawned < hqItems
    /\ hqSpawned' = hqSpawned + 1
    /\ itemState' = [itemState EXCEPT ![hqSpawned + 1] = "started"]
    /\ UNCHANGED <<hqPc, hqItems, hqOthers>>

\* the loop is over: wg.Wait()
Item_RangeDone ==
    /\ hqPc = "range"
    /\ hqSpawned = hqItems
    /\ hqPc' = "wait"
    /\ UNCHANGED <<hqItems, hqSpawned, itemState, hqOthers>>

\* the goroutine of item i: semaphore <- struct{}{} gets a slot, and
\* processItemWithSmartDetection(item) begins
Item_Begin(i) ==
    /\ itemState[i] = "started"
    /\ SemaphoreHeld < MaxConcurrentFiles
    /\ itemState' = [itemState EXCEPT ![i] = "processing"]
    /\ UNCHANGED <<hqPc, hqItems, hqSpawned, hqOthers>>

\* the goroutine of item i: processItemWithSmartDetection returns; the
\* deferred <-semaphore and wg.Done() run
Item_End(i) ==
    /\ itemState[i] = "processing"
    /\ itemState' = [itemState EXCEPT ![i] = "done"]
    /\ UNCHANGED <<hqPc, hqItems, hqSpawned, hqOthers>>

\* wg.Wait() returns and so does handleQueryResult
handleQueryResult_Returns ==
    /\ hqPc = "wait"
    /\ \A i \in 1..hqItems : itemState[i] = "done"
    /\ hqPc' = "returned"
    /\ UNCHANGED <<hqItems, hqSpawned, itemState, hqOthers>>

NextItems ==
    \/ handleQueryResult_Error
    \/ \E n \in 0..MaxResultItems : handleQueryResult(n)
    \/ Item_Go
    \/ Item_RangeDone
    \/ \E i \in ResultItems : Item_Begin(i)
    \/ \E i \in ResultItems : Item_End(i)
    \/ handleQueryResult_Returns

\* ------------------------------------- the scan loop and its search client
\* (HajimiKing.mainLoop calling SearchForKeys of the paging client)

\* mainLoop: SearchForKeys(query) is called for a query not yet processed
MainLoop_Search ==
    /\ Running
    /\ scPc = "query"
    /\ qi <= Len(searchQueries)
    /\ ~contains(ProcessedQueries, NormalizeQuery(searchQueries[qi]))
    /\ ghPc = "idle"
    /\ SearchForKeys

\* mainLoop: SearchForKeys returned (result, err) and its locals are gone;
\* err != nil -> continue, else the item loop begins over result.Items (or,
\* with no items, the query is done)
MainLoop_SearchReturns ==
    /\ Running
    /\ scPc = "query"
    /\ ghPc = "returned"
    /\ ghPc' = "idle"
    /\ IF ghResult.error
       THEN /\ qi' = qi + 1
            /\ UNCHANGED <<scPc, resultLen, itemIndex>>
       ELSE /\ resultLen' = ghResult.Items
            /\ itemIndex' = 0
            /\ scPc' = ItemLoopPc(0, ghResult.Items)
            /\ UNCHANGED qi
    /\ ghResult' = NoSearchResult
    /\ srToken' = NoToken
    /\ page' = 0
    /\ attempt' = 0
    /\ allItems' = 0
    /\ totalCount' = 0
    /\ expectedTotal' = 0
    /\ UNCHANGED <<now, LastScanTime, ScannedSHAs, ProcessedQueries, skipStats,
                   searchQueries, disk, item, reason, loopSkipped, scSnap, sdPc, sdSnap,
                   ghKind, cToken, retryCount, srRequests, srStatus, tokenPtr,
                   tmVars, wpVars, caVars, dtVars, vkVars, ckVars, nqVars, hqVars,
                   lkVars, gmVars>>

\* the scan loop with its searches made by the paging client; the API
\* reports at most MaxItems results and a page holds no more than are left
NextQuery ==
    \/ TickScan
    \/ LoopStart
    \/ LoopEnd
    \/ QuerySkip
    \/ MainLoop_Search
    \/ \E status \in SearchStatuses : Paging_AttemptFails(status)
    \/ \E total \in 0..MaxItems :
          \E items \in 0..Min(PerPage, total - allItems) : Paging_PageOk(items, total)
    \/ Paging_Finish
    \/ MainLoop_SearchReturns
    \/ ItemSave_Marshal
    \/ ItemSave_Write
    \/ \E it \in Items : ItemDecide(it)
    \/ ItemProcess
    \/ QueryDone
    \/ QuerySave_Write

\* ---------------------------------------------- the credential pool's locks
\* (TokenManager.mu and TokenManager.blacklistMu, both sync.RWMutex, as the
\* pool's methods take them.  A sync.RWMutex holds RLock callers back while
\* a Lock call is waiting or holding.)
Methods == {"GetNextToken", "BlacklistToken", "GetTokenCount", "GetStatus"}
Mutexes == {"mu", "blacklistMu"}

\* isBlacklisted: blacklistMu.RLock, deferred RUnlock
isBlacklistedOps == << <<"RLock", "blacklistMu">>, <<"RUnlock", "blacklistMu">> >>

\* the loop over the tokens, one isBlacklisted call per token
RECURSIVE LoopOps(_)
LoopOps(n) == IF n = 0 THEN <<>> ELSE isBlacklistedOps \o LoopOps(n - 1)

\* what a method does to the two mutexes, in order
LockOps(method) ==
    CASE method = "GetNextToken" ->
             << <<"Lock", "mu">>, <<"Lock", "blacklistMu">>, <<"Unlock", "blacklistMu">> >>
                 \o LoopOps(NumTokens) \o << <<"Unlock", "mu">> >>
      [] method = "BlacklistToken" ->
             << <<"Lock", "blacklistMu">>, <<"Unlock", "blacklistMu">> >>
      [] method = "GetTokenCount" ->
             << <<"RLock", "mu">> >> \o LoopOps(NumTokens) \o << <<"RUnlock", "mu">> >>
      [] OTHER ->
             << <<"RLock", "mu">>, <<"RLock", "blacklistMu">> >> \o LoopOps(NumTokens)
                 \o << <<"RUnlock", "blacklistMu">>, <<"RUnlock", "mu">> >>

\* a goroutine per method; lkPc: 0 outside a call, else the index of its next op
NextOp(p) == IF lkPc[p] = 0 THEN <<"none", "mu">> ELSE LockOps(p)[lkPc[p]]
Advance(p) == [lkPc EXCEPT ![p] = IF lkPc[p] = Len(LockOps(p)) THEN 0 ELSE lkPc[p] + 1]

InitLocks ==
    /\ lkPc = [p \in Methods |-> 0]
    /\ rwReaders = [m \in Mutexes |-> [p \in Methods |-> 0]]
    /\ rwWriter = [m \in Mutexes |-> NoOne]
    /\ rwPending = [m \in Mutexes |-> NoOne]

\* No method of the pool is being called.
IdleLocks == InitLocks

\* a goroutine calls its method
Method_Call(p) ==
    /\ lkPc[p] = 0
    /\ lkPc' = [lkPc EXCEPT ![p] = 1]
    /\ UNCHANGED <<rwReaders, rwWriter, rwPending, lkOthers>>

\* RWMutex.Lock, first half: the writer has the mutex's inner lock and
\* announces itself; from now on RLock callers wait
Lock_Announce(p) ==
    /\ NextOp(p)[1] = "Lock"
    /\ rwPending[NextOp(p)[2]] = NoOne
    /\ rwWriter[NextOp(p)[2]] = NoOne
    /\ rwPending' = [rwPending EXCEPT ![NextOp(p)[2]] = p]
    /\ UNCHANGED <<lkPc, rwReaders, rwWriter, lkOthers>>

\* RWMutex.Lock, second half: the readers have left, Lock returns
Lock_Acquire(p) ==
    /\ NextOp(p)[1] = "Lock"
    /\ rwPending[NextOp(p)[2]] = p
    /\ \A q \in Methods : rwReaders[NextOp(p)[2]][q] = 0
    /\ rwPending' = [rwPending EXCEPT ![NextOp(p)[2]] = NoOne]
    /\ rwWriter' = [rwWriter EXCEPT ![NextOp(p)[2]] = p]
    /\ lkPc' = Advance(p)
    /\ UNCHANGED <<rwReaders, lkOthers>>

\* RWMutex.Unlock
Unlock(p) ==
    /\ NextOp(p)[1] = "Unlock"
    /\ rwWriter' = [rwWriter EXCEPT ![NextOp(p)[2]] = NoOne]
    /\ lkPc' = Advance(p)
    /\ UNCHANGED <<rwReaders, rwPending, lkOthers>>

\* RWMutex.RLock: returns when no writer holds the mutex or waits for it
RLock(p) ==
    /\ NextOp(p)[1] = "RLock"
    /\ rwWriter[NextOp(p)[2]] = NoOne
    /\ rwPending[NextOp(p)[2]] = NoOne
    /\ rwReaders' = [rwReaders EXCEPT ![NextOp(p)[2]][p] = @ + 1]
    /\ lkPc' = Advance(p)
    /\ UNCHANGED <<rwWriter, rwPending, lkOthers>>

\* RWMutex.RUnlock
RUnlock(p) ==
    /\ NextOp(p)[1] = "RUnlock"
    /\ rwReaders' = [rwReaders EXCEPT ![NextOp(p)[2]][p] = @ - 1]
    /\ lkPc' = Advance(p)
    /\ UNCHANGED <<rwWriter, rwPending, lkOthers>>

\* GetNextToken: isBlacklisted returned false, the token is returned before
\* the loop has visited every token
GetNextToken_Found(p) ==
    /\ p = "GetNextToken"
    /\ lkPc[p] > 4
    /\ NextOp(p)[1] = "RLock"
    /\ lkPc' = [lkPc EXCEPT ![p] = Len(LockOps(p))]
    /\ UNCHANGED <<rwReaders, rwWriter, rwPending, lkOthers>>

\* a step of goroutine p
LockStep(p) ==
    \/ Method_Call(p)
    \/ Lock_Announce(p)
    \/ Lock_Acquire(p)
    \/ Unlock(p)
    \/ RLock(p)
    \/ RUnlock(p)
    \/ GetNextToken_Found(p)

NextLocks ==
    \/ \E p \in Methods : Method_Call(p)
    \/ \E p \in Methods : Lock_Announce(p)
    \/ \E p \in Methods : Lock_Acquire(p)
    \/ \E p \in Methods : Unlock(p)
    \/ \E p \in Methods : RLock(p)
    \/ \E p \in Methods : RUnlock(p)
    \/ \E p \in Methods : GetNextToken_Found(p)

\* ------------------------------------------------ task scheduler, metrics
\* (the counters are atomics of their own: SubmitTask adds to tasksSubmitted
\* after its send, Worker.run to tasksCompleted or tasksFailed after its
\* send, and GetMetrics loads the three one after the other)

\* SubmitTask, select case wp.taskQueue <- task: the send
SubmitTask_Enqueue(s) ==
    /\ ~panicked
    /\ subPc[s] = "select"
    /\ ~tqClosed
    /\ Len(taskQueue) < TaskQueueCap
    /\ taskQueue' = Append(taskQueue, subTask[s])
    /\ subPc' = [subPc EXCEPT ![s] = "count"]
    /\ UNCHANGED <<tqClosed, resultQueue, rqClosed, ctxDone, started, stopped, wstate,
                   wtask, wfailed, runPc, subTask, subResult, nextTask, tasksSubmitted,
                   tasksCompleted, tasksFailed, panicked, wpOthers>>

\* SubmitTask, after the send: atomic.AddInt64(&wp.tasksSubmitted, 1); return nil
SubmitTask_Count(s) ==
    /\ ~panicked
    /\ subPc[s] = "count"
    /\ tasksSubmitted' = tasksSubmitted + 1
    /\ subResult' = [subResult EXCEPT ![s] = "ok"]
    /\ subPc' = [subPc EXCEPT ![s] = "idle"]
    /\ UNCHANGED <<taskQueue, tqClosed, resultQueue, rqClosed, ctxDone, started, stopped,
                   wstate, wtask, wfailed, runPc, subTask, nextTask, tasksCompleted,
                   tasksFailed, panicked, wpOthers>>

\* Worker.run, inner select, case w.pool.resultQueue <- result: the send
Worker_SendResult(w) ==
    /\ ~panicked
    /\ wstate[w] = "send"
    /\ ~rqClosed
    /\ Len(resultQueue) < ResultQueueCap
    /\ resultQueue' = Append(resultQueue, wtask[w])
    /\ wstate' = [wstate EXCEPT ![w] = "count"]
    /\ UNCHANGED <<taskQueue, tqClosed, rqClosed, ctxDone, started, stopped, wtask, wfailed,
                   runPc, subPc, subTask, subResult, nextTask, tasksSubmitted,
                   tasksCompleted, tasksFailed, panicked, wpOthers>>

\* Worker.run, after the send: atomic.AddInt64 on tasksFailed or tasksCompleted
Worker_Count(w) ==
    /\ ~panicked
    /\ wstate[w] = "count"
    /\ IF wfailed[w]
       THEN tasksFailed' = tasksFailed + 1 /\ UNCHANGED tasksCompleted
       ELSE tasksCompleted' = tasksCompleted + 1 /\ UNCHANGED tasksFailed
    /\ wtask' = [wtask EXCEPT ![w] = 0]
    /\ wstate' = [wstate EXCEPT ![w] = "select"]
    /\ UNCHANGED <<taskQueue, tqClosed, resultQueue, rqClosed, ctxDone, started, stopped,
                   wfailed, runPc, subPc, subTask, subResult, nextTask, tasksSubmitted,
                   panicked, wpOthers>>

NoMetrics == [TasksSubmitted |-> -1, TasksCompleted |-> -1, TasksFailed |-> -1]

InitMetrics ==
    /\ gmPc = "idle"
    /\ gmMetrics = NoMetrics

\* GetMetrics is not being called.
IdleMetrics == InitMetrics

\* GetMetrics: TasksSubmitted: atomic.LoadInt64(&wp.tasksSubmitted)
GetMetrics_LoadSubmitted ==
    /\ gmPc \in {"idle", "returned"}
    /\ gmMetrics' = [NoMetrics EXCEPT !.TasksSubmitted = tasksSubmitted]
    /\ gmPc' = "completed"
    /\ UNCHANGED gmOthers

\* GetMetrics: TasksCompleted: atomic.LoadInt64(&wp.tasksCompleted)
GetMetrics_LoadCompleted ==
    /\ gmPc = "completed"
    /\ gmMetrics' = [gmMetrics EXCEPT !.TasksCompleted = tasksCompleted]
    /\ gmPc' = "failed"
    /\ UNCHANGED gmOthers

\* GetMetrics: TasksFailed: atomic.LoadInt64(&wp.tasksFailed); return
GetMetrics_LoadFailed ==
    /\ gmPc = "failed"
    /\ gmMetrics' = [gmMetrics EXCEPT !.TasksFailed = tasksFailed]
    /\ gmPc' = "returned"
    /\ UNCHANGED gmOthers

\* submitters, workers and a caller of GetMetrics, while the pool runs
NextMetrics ==
    \/ Start
    \/ \E s \in Submitters : SubmitTask_Check(s)
    \/ \E s \in Submitters : SubmitTask_Enqueue(s)
    \/ \E s \in Submitters : SubmitTask_Count(s)
    \/ \E s \in Submitters : SubmitTask_Full(s)
    \/ \E w \in PoolWorkers : Worker_Receive(w)
    \/ \E w \in PoolWorkers : Worker_Execute(w)
    \/ \E w \in PoolWorkers : Worker_SendResult(w)
    \/ \E w \in PoolWorkers : Worker_Count(w)
    \/ ProcessResults
    \/ GetMetrics_LoadSubmitted
    \/ GetMetrics_LoadCompleted
    \/ GetMetrics_LoadFailed

\* the components added later, left untouched
IdleMore ==
    /\ IdleSearch
    /\ IdleItems
    /\ IdleLocks
    /\ IdleMetrics

\* the components added after the cache, at rest
IdleRest ==
    /\ IdleDetect
    /\ IdleValidate
    /\ IdleCheckpointFile
    /\ IdleNormalize
    /\ IdleMore

\* ---------------------------------------------------------- specifications
InitSpecTokens ==
    /\ now = 0
    /\ InitTokens
    /\ IdlePool
    /\ IdleScan
    /\ IdleCache
    /\ IdleRest
SpecTokens == InitSpecTokens /\ [][NextTokens]_vars

InitSpecPool ==
    /\ now = 0
    /\ IdleTokens
    /\ InitPool
    /\ IdleScan
    /\ IdleCache
    /\ IdleRest
SpecPool == InitSpecPool /\ [][NextPool]_vars

\* the scan loop over a query file that spells one query in two ways
InitSpecScan ==
    /\ now = 1
    /\ IdleTokens
    /\ IdlePool
    /\ InitScan(SubSeq(SearchQueries, 1, 2))
    /\ IdleCache
    /\ IdleRest
SpecScan == InitSpecScan /\ [][NextScan]_vars

\* the scan loop over a one-line query file, and the signal path
InitSpecShutdown ==
    /\ now = 1
    /\ IdleTokens
    /\ IdlePool
    /\ InitScan(SubSeq(SearchQueries, 1, 1))
    /\ IdleCache
    /\ IdleRest
SpecShutdown == InitSpecShutdown /\ [][NextShutdown]_vars

\* the scan loop over a one-line query file, with the checkpoint file
\* written in steps
InitSpecCrash ==
    /\ now = 1
    /\ IdleTokens
    /\ IdlePool
    /\ InitScan(SubSeq(SearchQueries, 1, 1))
    /\ IdleCache
    /\ IdleRest
SpecCrash == InitSpecCrash /\ [][NextCrash]_vars

InitSpecCache ==
    /\ now = 0
    /\ IdleTokens
    /\ IdlePool
    /\ IdleScan
    /\ InitCache
    /\ IdleRest
SpecCache == InitSpecCache /\ [][NextCache]_vars

\* the cache with a Redis that can refuse a Del
SpecDelete == InitSpecCache /\ [][NextDelete]_vars

\* one file through the detector, by either binary
InitSpecDetect ==
    /\ now = 0
    /\ IdleTokens
    /\ IdlePool
    /\ IdleScan
    /\ IdleCache
    /\ InitDetect
    /\ IdleValidate
    /\ IdleCheckpointFile
    /\ IdleNormalize
    /\ IdleMore
SpecDetect == InitSpecDetect /\ [][NextDetect]_vars

\* one key, one provider answer, through ValidateKey
InitSpecValidate ==
    /\ now = 0
    /\ IdleTokens
    /\ IdlePool
    /\ IdleScan
    /\ IdleCache
    /\ IdleDetect
    /\ InitValidate
    /\ IdleCheckpointFile
    /\ IdleNormalize
    /\ IdleMore
SpecValidate == InitSpecValidate /\ [][NextValidate]_vars

\* one process saves its checkpoint and ends, the next one starts
InitSpecCheckpointFile ==
    /\ now = 0
    /\ IdleTokens
    /\ IdlePool
    /\ IdleScan
    /\ IdleCache
    /\ IdleDetect
    /\ IdleValidate
    /\ InitCheckpointFile
    /\ IdleNormalize
    /\ IdleMore
SpecCheckpointFile == InitSpecCheckpointFile /\ [][NextCheckpointFile]_vars

\* NormalizeQuery applied twice to one query text
InitSpecNormalize ==
    /\ now = 0
    /\ IdleTokens
    /\ IdlePool
    /\ IdleScan
    /\ IdleCache
    /\ IdleDetect
    /\ IdleValidate
    /\ IdleCheckpointFile
    /\ InitNormalize
    /\ IdleMore
SpecNormalize == InitSpecNormalize /\ [][NextNormalize]_vars

\* search calls through a client built in one of the three ways
InitSpecSearch ==
    /\ now = 0
    /\ InitSearch
    /\ IdlePool
    /\ IdleScan
    /\ IdleCache
    /\ IdleDetect
    /\ IdleValidate
    /\ IdleCheckpointFile
    /\ IdleNormalize
    /\ IdleItems
    /\ IdleLocks
    /\ IdleMetrics
SpecSearch == InitSpecSearch /\ [][NextSearch]_vars

\* the items of query results, handled one result after the other
InitSpecItems ==
    /\ now = 0
    /\ InitItems
    /\ IdleTokens
    /\ IdlePool
    /\ IdleScan
    /\ IdleCache
    /\ IdleDetect
    /\ IdleValidate
    /\ IdleCheckpointFile
    /\ IdleNormalize
    /\ IdleSearch
    /\ IdleLocks
    /\ IdleMetrics
SpecItems == InitSpecItems /\ [][NextItems]_vars

\* the scan loop over a one-line query file, searching through the paging
\* client
InitSpecQuery ==
    /\ now = 1
    /\ InitSearch
    /\ ghKind = "paging"
    /\ IdlePool
    /\ InitScan(SubSeq(SearchQueries, 1, 1))
    /\ IdleCache
    /\ IdleDetect
    /\ IdleValidate
    /\ IdleCheckpointFile
    /\ IdleNormalize
    /\ IdleItems
    /\ IdleLocks
    /\ IdleMetrics
SpecQuery == InitSpecQuery /\ [][NextQuery]_vars

\* the scan loop over a query file of two different queries
InitSpecCycle ==
    /\ now = 1
    /\ IdleTokens
    /\ IdlePool
    /\ InitScan(SubSeq(SearchQueries, 2, 3))
    /\ IdleCache
    /\ IdleRest
SpecCycle == InitSpecCycle /\ [][NextCycle]_vars

\* the methods of the credential pool, each called over and over by its own goroutine
InitSpecLocks ==
    /\ now = 0
    /\ InitLocks
    /\ IdleTokens
    /\ IdlePool
    /\ IdleScan
    /\ IdleCache
    /\ IdleDetect
    /\ IdleValidate
    /\ IdleCheckpointFile
    /\ IdleNormalize
    /\ IdleSearch
    /\ IdleItems
    /\ IdleMetrics
SpecLocks == InitSpecLocks /\ [][NextLocks]_vars

\* the pool while it runs, with a goroutine that calls GetMetrics over and over
InitSpecMetrics ==
    /\ now = 0
    /\ InitMetrics
    /\ IdleTokens
    /\ InitPool
    /\ IdleScan
    /\ IdleCache
    /\ IdleDetect
    /\ IdleValidate
    /\ IdleCheckpointFile
    /\ IdleNormalize
    /\ IdleSearch
    /\ IdleItems
    /\ IdleLocks
SpecMetrics == InitSpecMetrics /\ [][NextMetrics]_vars

\* ------------------------------------------------------------------ claims

\* C1: GetNextToken never returns a token that is blacklisted at the moment
\* it returns, under any interleaving with BlacklistToken.
C1_NeverReturnsBlacklisted ==
    [][\A c \in Clients :
          (GetNextToken_Return(c) /\ tmRet[c] # NoToken) => ~isBlacklisted(tmRet[c])]_vars

\* the step in which s's SubmitTask call returns to its caller
SubmitTask_Returns(s) ==
    \/ SubmitTask_Check(s) /\ stopped = 1
    \/ SubmitTask_Send(s)
    \/ SubmitTask_SendClosed(s)
    \/ SubmitTask_Cancelled(s)
    \/ SubmitTask_Full(s)

C3_StopWaitsForWorkers ==
    /\ runPc = "stopped" =>
          /\ stopped = 1 /\ ctxDone /\ tqClosed /\ rqClosed
          /\ \A w \in PoolWorkers : wstate[w] = "exited"
    /\ rqClosed => \A w \in PoolWorkers : wstate[w] = "exited"

C3_Witness ==
    /\ runPc = "stopped"
    /\ tasksCompleted + tasksFailed > 0
    /\ taskQueue # <<>>

\* mainLoop is inside SaveCheckpoint
ScanInSave == scPc \in {"item_write", "query_write"}
\* handleShutdown is inside SaveCheckpoint
ShutdownInSave == sdPc = "write"

\* C4: the checkpoint has a single writer -- the scan loop and the shutdown
\* handler are never both persisting (or mutating and persisting) the
\* checkpoint at the same time.
C4_SingleWriter == ~(ScanInSave /\ ShutdownInSave)

\* C5: ScannedSHAs never holds more than the cap (10000, here ShaCap) entries.
C5_CapRespected == Len(ScannedSHAs) <= ShaCap

\* C6: ScannedSHAs never contains a content identifier twice, the loaded
\* checkpoint having contained none twice.
C6_NoDuplicates ==
    \A i, j \in 1..Len(ScannedSHAs) : i # j => ScannedSHAs[i] # ScannedSHAs[j]
\* an item already scanned was offered again and turned away
C6_Witness == reason = "sha_duplicate" /\ Len(ScannedSHAs) >= 2

\* the four skip rules, each on its own
Matches(cause, it) ==
    CASE cause = "time_filter" ->
            LastScanTime # 0 /\ it.PushedAt # 0 /\ it.PushedAt <= LastScanTime
      [] cause = "sha_duplicate" -> contains(ScannedSHAs, it.SHA)
      [] cause = "age_filter" -> it.PushedAt # 0 /\ it.PushedAt < now - DateRangeDays
      [] cause = "doc_filter" -> PathBlacklisted(it.Path)
FilterOrder == <<"time_filter", "sha_duplicate", "age_filter", "doc_filter">>
EarliestMatch(it) ==
    LET hits == {i \in 1..Len(FilterOrder) : Matches(FilterOrder[i], it)}
    IN  IF hits = {} THEN ""
        ELSE FilterOrder[CHOOSE i \in hits : \A k \in hits : i <= k]

\* C7: the skip rules are tried in the order time_filter, sha_duplicate,
\* age_filter, doc_filter; an item matching several is attributed to the
\* earliest one, and only that rule's counter goes up (by one); an item
\* matching none is not skipped and no counter moves.
C7_FirstMatchWins ==
    [][\A it \in Items : ItemDecide(it) =>
          IF EarliestMatch(it) = ""
          THEN skipStats' = skipStats /\ scPc' = "process"
          ELSE /\ reason' = EarliestMatch(it)
               /\ skipStats' = [skipStats EXCEPT ![EarliestMatch(it)] = @ + 1]
               /\ scPc' # "process"]_vars
\* an item matching all four rules was counted as time_filter alone
C7_Witness ==
    /\ reason = "time_filter"
    /\ \A cause \in SkipCauses : Matches(cause, item)
    /\ skipStats = [c \in SkipCauses |-> IF c = "time_filter" THEN 1 ELSE 0]

SkipTotal ==
    skipStats["time_filter"] + skipStats["sha_duplicate"]
        + skipStats["age_filter"] + skipStats["doc_filter"]

\* C8: the four skip counters always add up to the number of items skipped
\* since the cycle began (so also at its end), and they are all zero when a
\* cycle starts.
C8_CountersSumToSkipped ==
    /\ [](SkipTotal = loopSkipped)
    /\ [][LoopStart => \A c \in SkipCauses : skipStats'[c] = 0]_vars
\* a cycle ended with skips under two different causes
C8_Witness ==
    /\ scPc = "loop"
    /\ loopSkipped >= 2
    /\ Cardinality({c \in SkipCauses : skipStats[c] > 0}) >= 2

Count(seq, x) == Cardinality({i \in 1..Len(seq) : seq[i] = x})
\* an item passing all filters goes to processing with the list untouched,
\* and processing appends its SHA, which then occurs exactly once
PassedItemAppendedOnce ==
    /\ \A it \in Items : (ItemDecide(it) /\ EarliestMatch(it) = "") =>
          (scPc' = "process" /\ ScannedSHAs' = ScannedSHAs)
    /\ ItemProcess =>
          /\ ScannedSHAs' # <<>>
          /\ ScannedSHAs'[Len(ScannedSHAs')] = item.SHA
          /\ Count(ScannedSHAs', item.SHA) = 1
    /\ ScannedSHAs' # ScannedSHAs => ItemProcess

\* C9 as stated: an item whose SHA is in the checkpoint is counted as
\* sha_duplicate, skipped, and leaves ScannedSHAs unchanged; an item passing
\* all four filters is processed and its SHA appended exactly once, after
\* processing.
C9_KnownShaCountedAsDuplicate ==
    [][/\ \A it \in Items : (ItemDecide(it) /\ contains(ScannedSHAs, it.SHA)) =>
             /\ skipStats' = [skipStats EXCEPT !["sha_duplicate"] = @ + 1]
             /\ scPc' # "process"
             /\ ScannedSHAs' = ScannedSHAs
       /\ PassedItemAppendedOnce]_vars

\* C9 amended: an item whose SHA is in the checkpoint is skipped and leaves
\* ScannedSHAs unchanged; it is counted as sha_duplicate unless time_filter
\* matches it too, and then as time_filter; an item passing all four filters
\* is processed and its SHA appended exactly once, after processing.
C9_KnownShaSkipped ==
    [][/\ \A it \in Items : (ItemDecide(it) /\ contains(ScannedSHAs, it.SHA)) =>
             /\ skipStats' =
                    [skipStats EXCEPT ![IF Matches("time_filter", it)
                                        THEN "time_filter"
                                        ELSE "sha_duplicate"] = @ + 1]
             /\ scPc' # "process"
             /\ ScannedSHAs' = ScannedSHAs
       /\ PassedItemAppendedOnce]_vars
\* one item was turned away as a duplicate, a later one processed and recorded
C9_Witness ==
    /\ skipStats["sha_duplicate"] >= 1
    /\ reason = ""
    /\ item # NoItem
    /\ scPc # "process"
    /\ ScannedSHAs # <<>>
    /\ ScannedSHAs[Len(ScannedSHAs)] = item.SHA

\* C10: a Get that hits serves an entry whose expiresAt is later than the
\* time of the Get, whichever tier served it.
C10_ServedEntryNotExpired == lastGet.hit => lastGet.expiresAt > lastGet.at

\* C11: a Get of a key issued while the ttl of the key's last successful Set
\* runs, with no delete or other Set of the key in between, hits and returns
\* exactly the value that was set.
C11_GetReturnsWhatWasSet ==
    (lastGet.key \in CacheKeys /\ lastSet[lastGet.key] # NoEntry) =>
        (lastGet.hit /\ lastGet.value = lastSet[lastGet.key].value)

C13_ErrorIffAllBlacklisted ==
    [][\A c \in Clients : GetNextToken_Return(c) =>
          IF tmRet[c] = NoToken
          THEN \A t \in TokenIds : blacklist[t] # NotListed
          ELSE (\E t \in TokenIds : ~isBlacklisted(t)) => ~isBlacklisted(tmRet[c])]_vars

\* C14: a validation task exists only for a candidate that, on its line, is
\* not a placeholder, is not a test key, has confidence at or above the
\* threshold, and passes its platform's structural validator when there is
\* one.
C14_TaskOnlyForAcceptedCandidate ==
    \A t \in validationTasks :
        LET x == t.Context
            line == content[x.LineNumber]
        IN  /\ t.Key = x.Key
            /\ x.Key \in FindAll(x.Pattern, line[x.StartPos])
            /\ ~IsPlaceholder(x.Key, line)
            /\ ~IsTestKey(x.Key, line)
            /\ calculateConfidence(x.Key, line, x.Pattern) >= confidenceThreshold
            /\ patterns[x.Pattern].Platform \in validators
                   => Validate(patterns[x.Pattern].Platform, x.Key)
\* a task was created for a key of a validated platform while another match,
\* which only the structural validator rejects, got none
C14_Witness ==
    /\ dtPc = "done"
    /\ \E t \in validationTasks : t.Context.Platform \in validators
    /\ \E x \in AllMatches(content) :
          /\ ~x.IsPlaceholder /\ ~x.IsTestKey
          /\ x.Confidence >= confidenceThreshold
          /\ x.Platform \in validators
          /\ ~Validate(x.Platform, x.Key)
          /\ \A t \in validationTasks : t.Context # x

\* the keys a validation was asked for: tasks of the optimized binary, calls
\* of the legacy one
ValidatedKeys ==
    {t.Key : t \in validationTasks} \cup {c.Key : c \in validationCalls}

\* C15: a 39-character Gemini-shaped string that stands immediately before
\* YOUR_ in the content, and nowhere else in it, is never handed to
\* validation.
C15_KeyBeforeYourNeverValidated ==
    (/\ \E l \in 1..Len(content) : \E i \in 1..Len(content[l]) :
            content[l][i] = "GKEYYOUR_"
     /\ \A l \in 1..Len(content) : \A i \in 1..Len(content[l]) :
            content[l][i] # "GKEY")
      => "GKEY" \notin ValidatedKeys

Range(f) == {f[i] : i \in DOMAIN f}

Outcome(result) ==
    CASE result.Valid /\ result.Response = "ok"     -> "valid"
      [] result.Response = "not_authorized_key"     -> "unauthorized"
      [] result.Response = "rate_limited"           -> "rate_limited"
      [] result.Response = "disabled"               -> "disabled"
      [] OTHER                                      -> "error"

\* the rule of the claim, on an HTTP answer
HttpRule(r) ==
    IF ~r.transport THEN "error"
    ELSE IF r.status \in {401, 403} \/ r.body \in {"Unauthorized", "Invalid API key"}
    THEN "unauthorized"
    ELSE IF r.status = 429
              \/ r.body \in {"Too Many Requests", "rate limit", "Rate limit exceeded"}
    THEN "rate_limited"
    ELSE IF r.body = "Service disabled" THEN "disabled"
    ELSE IF r.status \notin {200, 201} \/ r.body = "malformed" THEN "error"
    ELSE "valid"

\* the rule of the claim, on what the Gemini client reports
GeminiRule(r) ==
    IF ~r.client THEN "error"
    ELSE IF r.failed THEN
        IF r.errStr \cap {"PermissionDenied", "Unauthenticated"} # {} THEN "unauthorized"
        ELSE IF r.errStr \cap {"429", "rate limit"} # {} THEN "rate_limited"
        ELSE IF "SERVICE_DISABLED" \in r.errStr THEN "disabled"
        ELSE "error"
    ELSE IF r.resp THEN "valid" ELSE "error"

\* C17: whenever ValidateKey has asked the provider, its result is the class
\* the rule gives the answer: 401/403 or an unauthorized message ->
\* unauthorized, 429 or a rate-limit message -> rate_limited, a disabled
\* message -> disabled, any other non-2xx or malformed answer -> error,
\* everything else -> valid.
C17_ClassifiedByTheRule ==
    (vkResult # NoResult /\ isValidFormat(vkPlatform, vkKey)) =>
        Outcome(vkResult) = IF vkPlatform = "gemini" THEN GeminiRule(vkResponse)
                            ELSE HttpRule(vkResponse)

\* C18: when the checkpoint file is unreadable or corrupt, the start goes on
\* with a fresh empty checkpoint; it does not abort.
C18_CorruptCheckpointStartsFresh ==
    (ckPc \in {"continues", "aborted"} /\ ckFile.state \in {"unreadable", "corrupt"})
        => (ckPc = "continues" /\ ckLoaded = FreshCheckpoint)

\* C20: the checkpoint loaded from the file SaveCheckpoint wrote equals, in
\* all five fields, the checkpoint that was saved.
C20_LoadReturnsWhatWasSaved ==
    (ckPc = "continues" /\ ckSaved) => ckLoaded = ckMem

\* C19: normalizing a normalized query changes nothing:
\* NormalizeQuery(NormalizeQuery(q)) = NormalizeQuery(q) for every query
\* text q, unbalanced and embedded double quotes included.
C19_NormalizeIsIdempotent ==
    nqPc = "twice" => nqTwice = nqOnce


\* C21: a Get of a key that Delete was called on, with no Set of the key in
\* between, reports a miss
C21_GetAfterDeleteMisses ==
    (lastGet.key \in deleted) => ~lastGet.hit


C30_RoundRobin ==
    /\ [][\A c \in Clients :
            (GetNextToken_Scan(c) /\ tmAttempts[c] < Len(tokens))
                => current' = (current + 1) % Len(tokens)]_vars
    /\ [](Len(recent) = Len(tokens) =>
            \A t \in TokenIds : Cardinality({i \in 1..Len(recent) : recent[i] = t}) = 1)
\* len(tokens) consecutive calls were made with no token blacklisted
C30_Witness ==
    /\ Len(recent) = Len(tokens)
    /\ \E c \in Clients : tmPc[c] = "ret" /\ tmRet[c] = recent[Len(recent)]

\* the step in which searchCodeWithRetry handles a response
Search_Handles == \E items \in 0..PerPage : Search_Response(items)

\* C22: a 401, 403 or 429 response to a search puts the token used on the
\* blacklist and, while retries are left, is followed by a retry with the
\* token the pool hands out next; a SearchCode call sends at most
\* MaxRetries + 1 requests and SearchForKeys makes at most MaxAttempts
\* attempts for a page
C22_AuthFailureBlacklistsAndRetries ==
    /\ [][(Search_Handles /\ srStatus \in {401, 403, 429}) =>
            /\ blacklist'[srToken] = now
            /\ retryCount < MaxRetries => ghPc' = "getCurrentToken"]_vars
    /\ [][(getCurrentToken /\ retryCount > 0 /\ ghPc' = "send") =>
            srToken' = GetNextToken(current, 0).token]_vars
    /\ [](srRequests <= MaxRetries + 1 /\ attempt <= MaxAttempts)

\* C23: no request is built with a token that is blacklisted at that time,
\* and when GetNextToken reports that no token is available the call ends
\* with an error and sends nothing
C23_NoRequestWithBlacklistedToken ==
    /\ [][(\E status \in SearchStatuses : Search_Send(status)) => ~isBlacklisted(srToken)]_vars
    /\ [][(getCurrentToken /\ ghKind = "pool" /\ GetNextToken(current, 0).token = NoToken) =>
            (ghPc' = "returned" /\ ghResult'.error /\ srRequests' = srRequests)]_vars

\* the step in which SearchForKeys takes in a page
Paging_TakesPage == \E items \in 0..PerPage, total \in 0..MaxTotal : Paging_PageOk(items, total)

\* C24: the page loop ends, with no further request, as soon as a page
\* brought fewer than PerPage items, or the items collected have reached
\* min(total, ResultCap), or MaxPages pages have been requested
C24_PagingStops ==
    /\ [][(Paging_TakesPage /\ (\/ allItems' - allItems < PerPage
                                \/ allItems' >= Min(totalCount', ResultCap)
                                \/ page = MaxPages))
            => ghPc' = "finish"]_vars
    /\ [](page <= MaxPages)

\* C25: SearchForKeys returns no error and every item it collected, however
\* far the items fall short of the total the API reported
C25_ShortfallIsNoError ==
    (ghKind = "paging" /\ ghPc = "returned") =>
        /\ ~ghResult.error
        /\ ghResult.Items = allItems
        /\ ghResult.TotalCount = totalCount
\* a search returned with more than a tenth of the expected items missing
C25_Witness ==
    /\ ghKind = "paging"
    /\ ghPc = "returned"
    /\ expectedTotal > 0
    /\ expectedTotal - allItems > expectedTotal \div 10
    /\ allItems > 0


\* C26: whenever a worker takes a task from the queue, no task left waiting
\* in the queue has a strictly higher priority (a lower priority number)
C26_HighestPriorityTakenFirst ==
    [][\A w \in PoolWorkers :
          Worker_Receive(w) =>
              \A i \in 1..Len(taskQueue') :
                  GetPriority(taskQueue'[i]) >= GetPriority(wtask'[w])]_vars


\* C27: within one query result, the processing of an item begins only when
\* the processing of every earlier item of the result has finished
C27_ItemsInPageOrder ==
    [][\A i \in ResultItems :
          Item_Begin(i) => \A j \in 1..(i - 1) : itemState[j] = "done"]_vars


\* s is the end of t
IsSuffix(s, t) ==
    Len(s) <= Len(t) /\ SubSeq(t, Len(t) - Len(s) + 1, Len(t)) = s

\* the SHAs recorded last that the checkpoint file does not hold: the fewest
\* to take off the end of ScannedSHAs for the rest to be the end of the file's
UnsavedItems ==
    CHOOSE k \in 0..Len(ScannedSHAs) :
        /\ IsSuffix(SubSeq(ScannedSHAs, 1, Len(ScannedSHAs) - k), disk.ScannedSHAs)
        /\ \A j \in 0..(k - 1) :
              ~IsSuffix(SubSeq(ScannedSHAs, 1, Len(ScannedSHAs) - j), disk.ScannedSHAs)

\* the completion records the checkpoint file does not hold
UnsavedQueries == Len(ProcessedQueries) - Len(disk.ProcessedQueries)

\* C28: at any instant the checkpoint file lacks the effects of at most
\* SaveEvery items and the completion record of at most one query
C28_CrashLosesAtMostN ==
    /\ UnsavedItems <= SaveEvery
    /\ UnsavedQueries <= 1

\* C31: a SubmitTask call that runs while Stop() runs enqueues the task or
\* returns an error; it never sends on the closed task queue
C31_SubmitNeverSendsOnClosedQueue ==
    /\ ~panicked
    /\ \A s \in Submitters :
          subResult[s] \in {"none", "ok", "stopped", "cancelled", "queue_full"}

\* C32: a worker that has started a task lets go of it only by sending its
\* result on the result queue, and the result queue is not closed while a
\* worker still holds a started task
C32_StartedTaskDeliversResult ==
    /\ [][\A w \in PoolWorkers :
            (wstate[w] = "send" /\ wstate'[w] # "send")
                => resultQueue' = Append(resultQueue, wtask[w])]_vars
    /\ [](rqClosed => \A w \in PoolWorkers : wstate[w] \notin {"exec", "send"})

\* the SearchForKeys call got its first page: it went past page 1 or read a
\* positive total_count from it
FirstPageRetrieved == page > 1 \/ expectedTotal > 0

\* C33: when SearchForKeys returns without having retrieved its first page,
\* mainLoop goes on to the next query and does not come to the place where
\* the query is appended to ProcessedQueries
C33_RecordedOnlyAfterSearchSucceeded ==
    [][(MainLoop_SearchReturns /\ ~FirstPageRetrieved)
          => (scPc' = "query" /\ qi' = qi + 1)]_vars

\* mainLoop's test on a query of the queries file: its normalized text is in
\* the ProcessedQueries of checkpoint c, the query is skipped
AlreadyProcessed(c, q) == contains(c.ProcessedQueries.elems, q)

\* C34: a query recorded in ProcessedQueries is never searched again; after a
\* restart that loads the saved checkpoint, every query that was recorded
\* is still found in ProcessedQueries, so mainLoop skips it
C34_RecordedQueryNeverSearchedAgain ==
    (ckPc = "continues" /\ ckSaved) =>
        \A q \in QueryStrings : AlreadyProcessed(ckMem, q) => AlreadyProcessed(ckLoaded, q)

\* C35: in the first cycle of a run, an item that was never processed and
\* whose repository was pushed to after the LastScanTime the cycle began with
\* (0 or 1, InitScan) is not skipped as time_filter, whatever queries have
\* completed before it in the cycle
C35_LaterQueryNotTimeFiltered ==
    [][\A it \in Items :
          (ItemDecide(it) /\ it.PushedAt > 1 /\ ~contains(ScannedSHAs, it.SHA))
              => reason' # "time_filter"]_vars

\* C36: concurrent calls of the pool's methods never deadlock: whenever a
\* call is in progress, some goroutine can take a step
C36_NoDeadlock ==
    (\E p \in Methods : lkPc[p] # 0) => \E q \in Methods : ENABLED LockStep(q)

\* a Set call that returns an error
Set_Fails == \E key \in CacheKeys, value \in CacheValues, ttl \in 1..MaxTtl :
                Set_L2Fails(key, value, ttl) \/ Set_L3Fails(key, value, ttl)

\* C37: a Set call that returns an error has modified no tier
C37_FailedSetChangesNothing ==
    [][Set_Fails => (l1Cache' = l1Cache /\ l2Cache' = l2Cache /\ l3Cache' = l3Cache)]_vars

\* C38: in every PoolMetrics that GetMetrics returns, completed + failed is
\* at most submitted
C38_CompletedPlusFailedAtMostSubmitted ==
    gmPc = "returned" =>
        gmMetrics.TasksCompleted + gmMetrics.TasksFailed <= gmMetrics.TasksSubmitted

\* C39: the platform of every submitted validation task is the platform the
\* detector assigned to the candidate the task was built for.
C39_TaskPlatformIsDetectedPlatform ==
    \A t \in validationTasks : t.Platform = t.Context.Platform

\* C40: every string a platform's detection pattern matches is accepted by
\* that platform's structural validator, for each platform that has both.
C40_PatternMatchAcceptedByValidator ==
    (program = "optimized" /\ dtPc # "start") =>
        \A x \in AllMatches(content) :
            x.Platform \in validators => Validate(x.Platform, x.Key)

====
